---- MODULE Spec2Model ----
(***************************************************************************)
(* Model of the USITC monthly consolidation script                         *)
(* (src/src/04b_usitc_data_local.py): month validation, quantity unit      *)
(* conflict resolution, monthly / ascending-descending consolidation, the  *)
(* cross-variable merge and the control flow of the main block.            *)
(*                                                                         *)
(* A spreadsheet file is modelled by what the script reads from it: the    *)
(* (Years, Start Month) pair of its metadata sheet and the rows of its     *)
(* data sheet.  A pandas DataFrame is a sequence of rows; a missing cell   *)
(* (NaN) is the empty tuple and a present cell v is the 1-tuple <<v>>.     *)
(***************************************************************************)
EXTENDS Integers, Sequences, FiniteSets, TLC

VARIABLES
    \* --- validate_monthly_files ---
    file_paths,     \* the batch: one <<Years, Start Month>> metadata pair per file
    folder_name,    \* the folder label passed to the validator
    validation,     \* outcome of validate_monthly_files ("pending" before the call)
    \* --- process_single_file, quantity branch ---
    df,               \* data rows of one quantity file below the header row
    q_pc,             \* "read" -> "processed" -> "rerun"
    df_final_monthly, \* table after conflict detection and resolution
    conflict_log,     \* one entry per resolved conflict group, in print order
    df_rerun,         \* result of applying the resolution step to df_final_monthly
    \* --- main block, control flow ---
    r_pc,             \* position of the main block
    var_i,            \* index in VARIABLES of the variable being processed
    order_i,          \* index in SortOrders of the batch being processed
    sort_order_dfs_n, \* len(sort_order_dfs) of the current variable
    final_variable_vars, \* keys of final_variable_dfs, in insertion order
    artifacts,        \* output files written so far
    batch_log,        \* history: (variable, sort order, outcome) of every batch visited
    \* --- main block, tables ---
    monthly_files,    \* data sheet of every monthly file: [variable][sort order][month]
    t_pc,             \* "batch" -> "consolidate" -> ... -> "final" -> "done"
    t_var,            \* index in VARIABLE_FOLDERS of the variable being processed
    t_order,          \* index in SortOrders of the batch being processed
    sort_order_dfs,   \* merged batch tables of the current variable, with their labels
    final_variable_dfs, \* consolidated table of every variable that had data
    final_df,         \* the master table (empty before the final merge)
    \* --- cross-check script (04c), main ---
    df_raw,           \* the master table read from the Parquet file (wide)
    data_sheets,      \* the rows of the official workbook's data sheets
    your_df,          \* canonical table of load_your_data
    official_df,      \* canonical table of load_official_data
    comparison_df,    \* rows returned by compare_datasets
    inconsistencies,  \* rows selected by generate_report
    c_pc,             \* position of main
    \* --- cross-check script (04c), load_your_data over several runs ---
    master_file,      \* the master Parquet file: readable or not, and its table
    cache_file,       \* the cache file: absent, unreadable, or the table stored
    k_call,           \* the last call: its flag, the cache it met, what it did
    k_runs,           \* number of calls so far
    \* --- consolidation script (04b), header detection of process_single_file ---
    h_df,             \* the data sheet read without header: per row, the text of
                      \* the cell that may name the anchor column
    header_row_index, \* index found by the scan (-1: not found)
    h_data,           \* the rows kept as data
    h_pc,             \* position in the function
    \* --- consolidation script (04b), the pool of workers of one batch ---
    w_files,          \* the data sheets of the batch's files, in list order
    w_results,        \* per file: <<>> while its worker runs, else <<table>>
    w_order,          \* the files in the order their workers completed
    w_list,           \* the list handed to the merge
    w_pc,             \* position of the main block
    \* --- download script (03), make_api_request ---
    attempt,          \* loop variable of the retry loop
    a_outcomes,       \* what each HTTP attempt so far met
    a_sleeps,         \* the waits slept so far, in seconds
    a_return,         \* "pending", or what the function returned
    \* --- download script (03), the main loop over several runs ---
    output_file,      \* the lines of the CSV file (<<>>: the file does not exist)
    countries_already_processed,  \* the set read from the file at the start
    column_headers,   \* TRUE once the headers are known in this run
    p_i,              \* index of the next country of country_list
    p_pc,             \* position of the script
    p_queried,        \* per country, the number of runs that queried it
    p_completed,      \* the countries whose iteration reached its end
    p_runs            \* number of runs started

vvars == <<file_paths, folder_name, validation>>
qvars == <<df, q_pc, df_final_monthly, conflict_log, df_rerun>>
rvars == <<r_pc, var_i, order_i, sort_order_dfs_n, final_variable_vars, artifacts,
           batch_log>>
tvars == <<monthly_files, t_pc, t_var, t_order, sort_order_dfs, final_variable_dfs,
           final_df>>
cvars == <<df_raw, data_sheets, your_df, official_df, comparison_df, inconsistencies,
           c_pc>>
kvars == <<master_file, cache_file, k_call, k_runs>>
hvars == <<h_df, header_row_index, h_data, h_pc>>
wvars == <<w_files, w_results, w_order, w_list, w_pc>>
avars == <<attempt, a_outcomes, a_sleeps, a_return>>
pvars == <<output_file, countries_already_processed, column_headers, p_i, p_pc,
           p_queried, p_completed, p_runs>>
evars == <<kvars, hvars, wvars, avars, pvars>>
basevars == <<vvars, qvars, rvars, tvars, cvars>>
vars == <<basevars, evars>>

\* the cross-check script is not in use
CIdle ==
    /\ df_raw = <<>>
    /\ data_sheets = <<>>
    /\ your_df = <<>>
    /\ official_df = <<>>
    /\ comparison_df = <<>>
    /\ inconsistencies = <<>>
    /\ c_pc = "idle"

\* no call of load_your_data has been made and no file is looked at
KIdle ==
    /\ master_file = <<>>
    /\ cache_file = <<>>
    /\ k_call = <<>>
    /\ k_runs = 0
\* no data sheet is being scanned
HIdle ==
    /\ h_df = <<>>
    /\ header_row_index = -1
    /\ h_data = <<>>
    /\ h_pc = "idle"
\* no pool is running
WIdle ==
    /\ w_files = <<>>
    /\ w_results = <<>>
    /\ w_order = <<>>
    /\ w_list = <<>>
    /\ w_pc = "idle"
\* no request is being made
AIdle ==
    /\ attempt = 0
    /\ a_outcomes = <<>>
    /\ a_sleeps = <<>>
    /\ a_return = "idle"
\* the download script is not in use
PIdle ==
    /\ output_file = <<>>
    /\ countries_already_processed = {}
    /\ column_headers = FALSE
    /\ p_i = 1
    /\ p_pc = "idle"
    /\ p_queried = <<>>
    /\ p_completed = {}
    /\ p_runs = 0
EIdle == KIdle /\ HIdle /\ WIdle /\ AIdle /\ PIdle

(***************************************************************************)
(* Generic helpers                                                         *)
(***************************************************************************)
Range(s) == {s[i] : i \in 1..Len(s)}

SeqsUpTo(S, n) == UNION {[1..k -> S] : k \in 0..n}

Min(S) == CHOOSE x \in S : \A y \in S : x <= y

\* rows of s at the positions in P, in order (boolean-mask selection)
RECURSIVE AtPositions(_, _)
AtPositions(s, P) ==
    IF P = {} THEN <<>>
    ELSE <<s[Min(P)]>> \o AtPositions(s, P \ {Min(P)})

\* entity keys are <<Country, HTS Number>>, ordered lexicographically
KeyLeq(a, b) == a[1] < b[1] \/ (a[1] = b[1] /\ a[2] <= b[2])

RECURSIVE SortedKeys(_)
SortedKeys(S) ==
    IF S = {} THEN <<>>
    ELSE LET m == CHOOSE x \in S : \A y \in S : KeyLeq(x, y)
         IN <<m>> \o SortedKeys(S \ {m})

(***************************************************************************)
(* 1. Month validation (validate_monthly_files)                            *)
(***************************************************************************)
\* Number of months in the expected range (the script's configured range
\* 2024-01 .. 2025-07 has 19; the model keeps the start and shortens the end).
ExpectedLen == 3
\* Largest batch (number of .xlsx files in one folder) that is enumerated.
MaxFiles == 4

MonthIndex(ym) == ym[1] * 12 + (ym[2] - 1)
IndexMonth(i) == <<i \div 12, (i % 12) + 1>>

RECURSIVE SortedMonths(_)
\* sorted(list(S)) for a set S of (year, month) tuples
SortedMonths(S) ==
    IF S = {} THEN <<>>
    ELSE LET m == CHOOSE x \in S : \A y \in S : MonthIndex(x) <= MonthIndex(y)
         IN <<m>> \o SortedMonths(S \ {m})

EXPECTED_START_DATE == <<2024, 1>>
EXPECTED_END_DATE == IndexMonth(MonthIndex(EXPECTED_START_DATE) + ExpectedLen - 1)

\* pd.date_range(start, end, freq='MS') as (year, month) pairs
date_range(start, end) == {IndexMonth(i) : i \in MonthIndex(start)..MonthIndex(end)}

expected_months == date_range(EXPECTED_START_DATE, EXPECTED_END_DATE)

\* Metadata a file can carry: int(metadata.get('Years', 0)) and
\* int(metadata.get('Start Month', 0)); 0 stands for an absent entry.
MetaYears == {0, 2024}
MetaMonths == 0..(ExpectedLen + 1)
MetaPairs == MetaYears \X MetaMonths

FolderNames == {"Customs value 24-25 ascending", "quantity 24-25 descending"}

\* lines 47-54: only pairs with both parts non-zero are collected, in a set
found_months(paths) ==
    {paths[i] : i \in {j \in 1..Len(paths) : paths[j][1] # 0 /\ paths[j][2] # 0}}

\* line 62
missing_months_swapped(paths) == found_months(paths) \ expected_months
missing_months(paths) == expected_months \ found_months(paths)

\* line 56: the duplicate test compares the set's size with the file count
duplicate_test_off(paths) == FALSE
duplicate_test(paths) == Cardinality(found_months(paths)) # Len(paths)

NoError == [status |-> "ok", message |-> "", folder |-> "", expected |-> 0,
            found |-> 0, months |-> <<>>]
Pending == [NoError EXCEPT !.status = "pending"]

\* The ValueError's message: its template, the folder it names, the counts
\* and the months it lists.
validate_monthly_files(paths, folder) ==
    IF duplicate_test(paths)
    THEN [status |-> "ValueError", message |-> "Duplicate months found",
          folder |-> folder, expected |-> Len(paths),
          found |-> Cardinality(found_months(paths)), months |-> <<>>]
    ELSE IF missing_months(paths) # {}
    THEN [status |-> "ValueError", message |-> "Missing months",
          folder |-> folder, expected |-> 0, found |-> 0,
          months |-> SortedMonths(missing_months(paths))]
    ELSE NoError

VInit ==
    /\ file_paths \in SeqsUpTo(MetaPairs, MaxFiles)
    /\ folder_name \in FolderNames
    /\ validation = Pending

VIdle ==
    /\ file_paths = <<>>
    /\ folder_name = ""
    /\ validation = Pending

Validate ==
    /\ validation.status = "pending"
    /\ validation' = validate_monthly_files(file_paths, folder_name)
    /\ UNCHANGED <<file_paths, folder_name>>


(***************************************************************************)
(* 2. Quantity files: unit conflict detection and resolution               *)
(*    (process_single_file lines 163-195, resolve_quantity_conflicts)      *)
(***************************************************************************)
\* Largest number of data rows of one quantity file that is enumerated.
MaxRows == 3

KeyDomain == {<<1, 20>>, <<2, 10>>}
UnitDomain == {"number", "kilograms", "liters"}
\* a raw value cell: <<>> is an empty or non-numeric cell
RawValues == {<<>>, <<-5>>, <<0>>, <<500>>}
RawRows == [key : KeyDomain, unit : UnitDomain, value : RawValues]

\* line 169: pd.to_numeric(..., errors='coerce').fillna(0)
to_numeric_fillna(t) ==
    [i \in 1..Len(t) |->
        [t[i] EXCEPT !.value = IF t[i].value = <<>> THEN 0 ELSE t[i].value[1]]]

KeysOf(t) == {t[i].key : i \in 1..Len(t)}
PositionsOf(t, k) == {i \in 1..Len(t) : t[i].key = k}

\* line 172: groupby(KEY_COLUMNS)['Quantity Description'].nunique()
unit_counts(t, k) == Cardinality({t[i].unit : i \in PositionsOf(t, k)})

\* line 173
conflict_groups_index(t) == {k \in KeysOf(t) : unit_counts(t, k) > 1}

\* lines 78-83: the pool, as positions of the group
pool_to_search(group) ==
    LET non_zero_rows == {i \in 1..Len(group) : group[i].value > 0}
    IN IF non_zero_rows = {} THEN 1..Len(group) ELSE non_zero_rows

\* lines 86-101: position in the group of the chosen row
chosen_position_kg_first(group) ==
    LET pool == pool_to_search(group)
        number_row == {i \in pool : group[i].unit = "number"}
        kg_row == {i \in pool : group[i].unit = "kilograms"}
    IN IF kg_row # {} THEN Min(kg_row)
       ELSE IF number_row # {} THEN Min(number_row)
       ELSE Min(pool)
chosen_position(group) ==
    LET pool == pool_to_search(group)
        number_row == {i \in pool : group[i].unit = "number"}
        kg_row == {i \in pool : group[i].unit = "kilograms"}
    IN IF number_row # {} THEN Min(number_row)
       ELSE IF kg_row # {} THEN Min(kg_row)
       ELSE Min(pool)

\* line 104: group.drop(chosen_row.index)
discarded_rows(group) ==
    AtPositions(group, (1..Len(group)) \ {chosen_position(group)})

\* lines 69-119: the returned frame
resolve_returns_pool(group) == AtPositions(group, pool_to_search(group))
resolve_returns_discarded(group) ==
    IF Len(group) = 1 THEN group ELSE discarded_rows(group)
resolve_quantity_conflicts(group) ==
    IF Len(group) = 1 THEN group
    ELSE SubSeq(group, chosen_position(group), chosen_position(group))

\* what the "[Conflict Resolved]" line of a group reports, plus the pool
log_entry(group) ==
    [key |-> group[1].key,
     group |-> group,
     pool |-> pool_to_search(group),
     chosen |-> chosen_position(group),
     discarded |-> discarded_rows(group)]

RECURSIVE apply_groups(_, _)
\* lines 181-183: groupby(KEY_COLUMNS).apply(resolve_quantity_conflicts),
\* groups taken in sorted key order, rows of a group in table order
apply_groups(t, keys) ==
    IF keys = <<>> THEN <<>>
    ELSE resolve_quantity_conflicts(AtPositions(t, PositionsOf(t, Head(keys))))
            \o apply_groups(t, Tail(keys))

\* lines 171-185: df_no_conflicts followed by df_resolved
resolve_step(t) ==
    LET conflicts == conflict_groups_index(t)
        df_no_conflicts == AtPositions(t, {i \in 1..Len(t) : t[i].key \notin conflicts})
        df_resolved == apply_groups(t, SortedKeys(conflicts))
    IN df_no_conflicts \o df_resolved

resolve_log(t) ==
    LET keys == SortedKeys(conflict_groups_index(t))
    IN [n \in 1..Len(keys) |-> log_entry(AtPositions(t, PositionsOf(t, keys[n])))]

QInit ==
    /\ df \in SeqsUpTo(RawRows, MaxRows)
    /\ q_pc = "read"
    /\ df_final_monthly = <<>>
    /\ conflict_log = <<>>
    /\ df_rerun = <<>>

QIdle ==
    /\ df = <<>>
    /\ q_pc = "idle"
    /\ df_final_monthly = <<>>
    /\ conflict_log = <<>>
    /\ df_rerun = <<>>

\* process_single_file on a quantity file, from the coercion of the value
\* column to the returned table
ProcessQuantityFile ==
    /\ q_pc = "read"
    /\ df_final_monthly' = resolve_step(to_numeric_fillna(df))
    /\ conflict_log' = resolve_log(to_numeric_fillna(df))
    /\ q_pc' = "processed"
    /\ UNCHANGED <<df, df_rerun>>

\* the detection and resolution step applied again, to its own output
RerunResolution ==
    /\ q_pc = "processed"
    /\ df_rerun' = resolve_step(df_final_monthly)
    /\ q_pc' = "rerun"
    /\ UNCHANGED <<df, df_final_monthly, conflict_log>>


(***************************************************************************)
(* 3. Main block: control flow over variables and batches, saving          *)
(*    (lines 242-332).  Tables are abstracted to "has data" here.          *)
(***************************************************************************)
VARIABLE_FOLDERS ==
    <<"Customs value 24-25", "Calculated duties 24-25", "quantity 24-25">>
SortOrders == <<"ascending", "descending">>

\* Batches the run may meet in a folder: complete, one month short, one
\* month twice, one file without metadata, one extra month.
CompleteBatch == SortedMonths(expected_months)
RunBatches ==
    {CompleteBatch,
     Tail(CompleteBatch),
     CompleteBatch \o <<Head(CompleteBatch)>>,
     <<<<0, 0>>>> \o Tail(CompleteBatch),
     CompleteBatch \o <<IndexMonth(MonthIndex(EXPECTED_END_DATE) + 1)>>}

\* line 263: f"{var} {sort_order}" (kept as the pair)
BatchFolder == <<VARIABLE_FOLDERS[var_i], SortOrders[order_i]>>

\* lines 264-266: the handler of the ValueError prints it and calls exit()
on_validation_error_continue == "batch"
on_validation_error == "exited"

RInit ==
    /\ r_pc = "batch"
    /\ var_i = 1
    /\ order_i = 1
    /\ sort_order_dfs_n = 0
    /\ final_variable_vars = <<>>
    /\ artifacts = {}
    /\ batch_log = <<>>

RIdle ==
    /\ r_pc = "idle"
    /\ var_i = 1
    /\ order_i = 1
    /\ sort_order_dfs_n = 0
    /\ final_variable_vars = <<>>
    /\ artifacts = {}
    /\ batch_log = <<>>

Logged(outcome) ==
    batch_log' = Append(batch_log,
        [var |-> VARIABLE_FOLDERS[var_i], sort_order |-> SortOrders[order_i],
         outcome |-> outcome])

\* the next iteration of "for sort_order", or the code after that loop
NextBatch ==
    IF order_i < Len(SortOrders)
    THEN order_i' = order_i + 1 /\ r_pc' = "batch"
    ELSE order_i' = order_i /\ r_pc' = "consolidate"

\* lines 253-255
FolderNotFound ==
    /\ r_pc = "batch"
    /\ Logged("folder not found")
    /\ NextBatch
    /\ UNCHANGED <<var_i, sort_order_dfs_n, final_variable_vars, artifacts, vvars>>

\* lines 257-260
NoExcelFiles ==
    /\ r_pc = "batch"
    /\ Logged("no files")
    /\ NextBatch
    /\ UNCHANGED <<var_i, sort_order_dfs_n, final_variable_vars, artifacts, vvars>>

\* lines 262-266: validation raises, the run prints the error and exits
ValidationFails ==
    /\ r_pc = "batch"
    /\ \E batch \in RunBatches :
        /\ validate_monthly_files(batch, BatchFolder).status = "ValueError"
        /\ file_paths' = batch
        /\ folder_name' = BatchFolder
        /\ validation' = validate_monthly_files(batch, BatchFolder)
    /\ Logged("validation failed")
    /\ IF on_validation_error = "exited"
       THEN r_pc' = "exited" /\ order_i' = order_i
       ELSE NextBatch
    /\ UNCHANGED <<var_i, sort_order_dfs_n, final_variable_vars, artifacts>>

\* lines 262-276: validation passes, every file yields an empty table
NoValidData ==
    /\ r_pc = "batch"
    /\ \E batch \in RunBatches :
        /\ validate_monthly_files(batch, BatchFolder).status = "ok"
        /\ file_paths' = batch
        /\ folder_name' = BatchFolder
        /\ validation' = validate_monthly_files(batch, BatchFolder)
    /\ Logged("no valid data")
    /\ NextBatch
    /\ UNCHANGED <<var_i, sort_order_dfs_n, final_variable_vars, artifacts>>

\* lines 262-281: validation passes, the monthly tables are merged
BatchMerged ==
    /\ r_pc = "batch"
    /\ \E batch \in RunBatches :
        /\ validate_monthly_files(batch, BatchFolder).status = "ok"
        /\ file_paths' = batch
        /\ folder_name' = BatchFolder
        /\ validation' = validate_monthly_files(batch, BatchFolder)
    /\ Logged("merged")
    /\ sort_order_dfs_n' = sort_order_dfs_n + 1
    /\ NextBatch
    /\ UNCHANGED <<var_i, final_variable_vars, artifacts>>

\* lines 284-289, then the next iteration of "for var" (line 249 resets the list)
ConsolidateVariable ==
    /\ r_pc = "consolidate"
    /\ final_variable_vars' =
        IF sort_order_dfs_n > 0
        THEN Append(final_variable_vars, VARIABLE_FOLDERS[var_i])
        ELSE final_variable_vars
    /\ sort_order_dfs_n' = 0
    /\ IF var_i < Len(VARIABLE_FOLDERS)
       THEN var_i' = var_i + 1 /\ order_i' = 1 /\ r_pc' = "batch"
       ELSE var_i' = var_i /\ order_i' = order_i /\ r_pc' = "final"
    /\ UNCHANGED <<artifacts, batch_log, vvars>>

\* line 296: if len(dataframes_to_merge) > 1
any_table(dataframes_to_merge) == Len(dataframes_to_merge) > 0
more_than_one_table(dataframes_to_merge) == Len(dataframes_to_merge) > 1

\* lines 294-310: at least two variables have a table
FinalMerge ==
    /\ r_pc = "final"
    /\ more_than_one_table(final_variable_vars)
    /\ r_pc' = "save summary"
    /\ UNCHANGED <<var_i, order_i, sort_order_dfs_n, final_variable_vars, artifacts,
                   batch_log, vvars>>

\* lines 331-332
LessThanTwoVariables ==
    /\ r_pc = "final"
    /\ ~more_than_one_table(final_variable_vars)
    /\ r_pc' = "done"
    /\ UNCHANGED <<var_i, order_i, sort_order_dfs_n, final_variable_vars, artifacts,
                   batch_log, vvars>>

SaveSteps == <<"save summary", "save parquet", "save excel">>
ArtifactOf(step) ==
    CASE step = "save summary" -> "country_summary_report.xlsx"
      [] step = "save parquet" -> "master_trade_data_final.parquet"
      [] step = "save excel" -> "master_trade_data.xlsx"
AfterSave(step) ==
    CASE step = "save summary" -> "save parquet"
      [] step = "save parquet" -> "save excel"
      [] step = "save excel" -> "done"

\* lines 312-324: one write of the try block succeeds
WriteArtifact ==
    /\ r_pc \in Range(SaveSteps)
    /\ artifacts' = artifacts \cup {ArtifactOf(r_pc)}
    /\ r_pc' = AfterSave(r_pc)
    /\ UNCHANGED <<var_i, order_i, sort_order_dfs_n, final_variable_vars, batch_log, vvars>>

\* lines 327-330: a write raises PermissionError or ImportError; the single
\* try block is left and the handler prints the error
WriteRaises ==
    /\ r_pc \in Range(SaveSteps)
    /\ r_pc' = "done"
    /\ UNCHANGED <<var_i, order_i, sort_order_dfs_n, final_variable_vars, artifacts,
                   batch_log, vvars>>


(***************************************************************************)
(* 4. Tables of the main block: per-file tables, the monthly merge, the    *)
(*    ascending/descending consolidation and the cross-variable merge      *)
(*    (lines 197-205, 187-195, 268-303)                                    *)
(***************************************************************************)
\* Total number of data rows, over all monthly files of a run, that is enumerated.
MaxDataRows == 3

NaN == <<>>
EmptyTable == [cols |-> <<>>, rows |-> <<>>]
IsEmpty(t) == t.rows = <<>>

\* lines 139-144: clean_variable_name
clean_variable_name(v) ==
    CASE v = 1 -> "Customs" [] v = 2 -> "Calculated" [] v = 3 -> "quantity"
is_quantity_file(v) == v = 3

\* cells a data row of a monthly file can hold
ValueCells == {<<1>>, <<2>>}
PlainRows == [key : KeyDomain, value : ValueCells]
QuantityRows == [key : KeyDomain, unit : {"number", "kilograms"}, value : ValueCells]
FileRows(v) == IF is_quantity_file(v) THEN QuantityRows ELSE PlainRows

\* The data sheet of a monthly file, as far as the function depends on it:
\* whether reading the sheet or shaping its rows raises ("unreadable"; the
\* metadata sheet was read by the validation before), whether a header row
\* is found in the scanned rows, and the data rows below the header row.
SheetKinds == {"header", "no header", "unreadable"}
DataSheet(kind, rows) == [sheet |-> kind, rows |-> rows]

\* lines 158-205: the table shaped from the data rows; its columns are named
\* after the variable, the part ("", "Value", "Unit") and the month.  Without
\* data rows the frame is empty.
monthly_table(v, ym, rows) ==
    IF rows = <<>> THEN EmptyTable
    ELSE IF is_quantity_file(v)
    THEN LET t == resolve_step(to_numeric_fillna(rows))
             value_col == <<clean_variable_name(v), "Value", ym>>
             unit_col == <<clean_variable_name(v), "Unit", ym>>
         IN [cols |-> <<value_col, unit_col>>,
             rows |-> [i \in 1..Len(t) |->
                [key |-> t[i].key,
                 cells |-> [c \in {value_col, unit_col} |->
                    IF c = value_col THEN <<t[i].value>> ELSE <<t[i].unit>>]]]]
    ELSE LET new_col == <<clean_variable_name(v), "", ym>>
         IN [cols |-> <<new_col>>,
             rows |-> [i \in 1..Len(rows) |->
                [key |-> rows[i].key,
                 cells |-> [c \in {new_col} |-> rows[i].value]]]]

\* the shaping applied whatever the sheet holds
process_single_file_unguarded(v, ym, file) == monthly_table(v, ym, file.rows)

\* lines 121-209: an exception anywhere in the function (lines 207-209) and a
\* header that is not found (lines 154-156) both return pd.DataFrame()
process_single_file(v, ym, file) ==
    IF file.sheet = "unreadable" THEN EmptyTable
    ELSE IF file.sheet = "no header" THEN EmptyTable
    ELSE monthly_table(v, ym, file.rows)

CellOf(row, c) == IF c \in DOMAIN row.cells THEN row.cells[c] ELSE NaN
\* a row widened to the columns cols, absent cells missing
Widen(row, cols) == [key |-> row.key, cells |-> [c \in Range(cols) |-> CellOf(row, c)]]

RowsOfKey(t, k) == AtPositions(t.rows, PositionsOf(t.rows, k))

\* rows of the outer join for one key: the products of the matching rows,
\* or the rows of the one side that has the key with the other side missing
merge_key_rows(left, right, k) ==
    LET ls == RowsOfKey(left, k)
        rs == RowsOfKey(right, k)
        cols == left.cols \o right.cols
        Pair(l, r) ==
            [key |-> k,
             cells |-> [c \in Range(cols) |->
                IF c \in Range(left.cols) THEN l.cells[c] ELSE r.cells[c]]]
    IN IF rs = <<>> THEN [i \in 1..Len(ls) |-> Widen(ls[i], cols)]
       ELSE IF ls = <<>> THEN [i \in 1..Len(rs) |-> Widen(rs[i], cols)]
       ELSE [n \in 1..(Len(ls) * Len(rs)) |->
                Pair(ls[((n - 1) \div Len(rs)) + 1], rs[((n - 1) % Len(rs)) + 1])]

RECURSIVE merge_rows(_, _, _)
merge_rows(left, right, keys) ==
    IF keys = <<>> THEN <<>>
    ELSE merge_key_rows(left, right, Head(keys)) \o merge_rows(left, right, Tail(keys))

\* pd.merge(left, right, on=KEY_COLUMNS, how='outer'): keys in sorted order
merge_outer(left, right) ==
    [cols |-> left.cols \o right.cols,
     rows |-> merge_rows(left, right,
                SortedKeys(KeysOf(left.rows) \cup KeysOf(right.rows)))]

RECURSIVE reduce_merge(_)
\* reduce(lambda left, right: pd.merge(...), tables), tables not empty
reduce_merge(tables) ==
    IF Len(tables) = 1 THEN tables[1]
    ELSE merge_outer(reduce_merge(SubSeq(tables, 1, Len(tables) - 1)),
                     tables[Len(tables)])

RECURSIVE concat(_)
\* pd.concat(tables, ignore_index=True): rows stacked, columns united
concat(tables) ==
    IF tables = <<>> THEN EmptyTable
    ELSE LET head == concat(SubSeq(tables, 1, Len(tables) - 1))
             last == tables[Len(tables)]
             new_cols == SelectSeq(last.cols, LAMBDA c : c \notin Range(head.cols))
             cols == head.cols \o new_cols
         IN [cols |-> cols,
             rows |-> [i \in 1..Len(head.rows) |-> Widen(head.rows[i], cols)]
                        \o [i \in 1..Len(last.rows) |-> Widen(last.rows[i], cols)]]

\* GroupBy.first() of one column of one group: the first cell that is not missing
first_cell_of_first_row(rows, c) == rows[1].cells[c]
first_cell(rows, c) ==
    LET present == {i \in 1..Len(rows) : rows[i].cells[c] # NaN}
    IN IF present = {} THEN NaN ELSE rows[Min(present)].cells[c]

\* one output row per key
all_of_group(t, k) == RowsOfKey(t, k)
first_of_group(t, k) ==
    <<[key |-> k, cells |-> [c \in Range(t.cols) |-> first_cell(RowsOfKey(t, k), c)]]>>

RECURSIVE first_rows(_, _)
first_rows(t, keys) ==
    IF keys = <<>> THEN <<>>
    ELSE first_of_group(t, Head(keys)) \o first_rows(t, Tail(keys))

\* line 287: stacked_df.groupby(KEY_COLUMNS, as_index=False).first()
groupby_first(t) ==
    [cols |-> t.cols, rows |-> first_rows(t, SortedKeys(KeysOf(t.rows)))]

\* lines 286-287
consolidate(tables) == groupby_first(concat(tables))

\* line 300: select_dtypes(include='number').  The data sheet is read with
\* header=None (line 147), so every column holds its header label, a text,
\* next to its values and is read as an object column; dropping the rows
\* down to the header (line 159) keeps that dtype, and so do the merges, the
\* concat and first().  Only the value column of a quantity file is
\* converted, by pd.to_numeric (line 169): the columns of numeric dtype are
\* the quantity value columns.
is_numeric_col(c) == c[1] = "quantity" /\ c[2] = "Value"
\* lines 300-301: numeric columns get their missing cells filled with 0
fillna_numeric(t) ==
    [cols |-> t.cols,
     rows |-> [i \in 1..Len(t.rows) |->
        [key |-> t.rows[i].key,
         cells |-> [c \in Range(t.cols) |->
            IF is_numeric_col(c) /\ t.rows[i].cells[c] = NaN
            THEN <<0>> ELSE t.rows[i].cells[c]]]]]

\* line 303: rows equal to an earlier row are dropped
drop_duplicates(t) ==
    [cols |-> t.cols,
     rows |-> AtPositions(t.rows,
        {i \in 1..Len(t.rows) : \A j \in 1..(i - 1) : t.rows[j] # t.rows[i]})]

\* lines 297-303
final_merge(tables) == drop_duplicates(fillna_numeric(reduce_merge(tables)))

\* --- the main block over these tables ---
\* The months whose files carry data rows: the first two of the expected
\* range.  The files of the later months give no table.
TableMonths == <<IndexMonth(MonthIndex(EXPECTED_START_DATE)),
                 IndexMonth(MonthIndex(EXPECTED_START_DATE) + 1)>>
AllSlots ==
    (1..Len(VARIABLE_FOLDERS)) \X (1..Len(SortOrders)) \X (1..Len(TableMonths))

RECURSIVE FileAssignments(_, _)
\* every way to give the files of slots (a sequence of <<variable, sort
\* order, month>>) data rows, at most budget rows in all
FileAssignments(slots, budget) ==
    IF slots = <<>> THEN {<<>>}
    ELSE UNION {{<<rows>> \o rest :
                    rest \in FileAssignments(Tail(slots), budget - Len(rows))} :
                rows \in SeqsUpTo(FileRows(Head(slots)[1]), budget)}

\* the files of slots filled as in assignment, every other file without
\* data rows; every file is readable and has its header row
FilesWith(slots, assignment) ==
    [s \in AllSlots |->
        IF \E i \in 1..Len(slots) : slots[i] = s
        THEN DataSheet("header", assignment[CHOOSE i \in 1..Len(slots) : slots[i] = s])
        ELSE DataSheet("header", <<>>)]

\* both batches of the first variable, every expected month
ConsolidateSlots ==
    [n \in 1..(Len(SortOrders) * Len(TableMonths)) |->
        <<1, ((n - 1) \div Len(TableMonths)) + 1, ((n - 1) % Len(TableMonths)) + 1>>]
\* the ascending batch of every variable, the first expected month
MasterSlots == [n \in 1..Len(VARIABLE_FOLDERS) |-> <<n, 1, 1>>]

\* line 270: pool.map(process_single_file, monthly_files), in month order
pool_map(v, o) ==
    [m \in 1..Len(TableMonths) |->
        process_single_file(v, TableMonths[m], monthly_files[<<v, o, m>>])]

\* line 272
list_of_monthly_dfs(v, o) == SelectSeq(pool_map(v, o), LAMBDA t : ~IsEmpty(t))

TablesOf(entries) == [i \in 1..Len(entries) |-> entries[i].table]

TInitCommon ==
    /\ t_pc = "batch"
    /\ t_var = 1
    /\ t_order = 1
    /\ sort_order_dfs = <<>>
    /\ final_variable_dfs = <<>>
    /\ final_df = EmptyTable

TInitConsolidate ==
    /\ monthly_files \in {FilesWith(ConsolidateSlots, a) :
                            a \in FileAssignments(ConsolidateSlots, MaxDataRows)}
    /\ TInitCommon

TInitMaster ==
    /\ monthly_files \in {FilesWith(MasterSlots, a) :
                            a \in FileAssignments(MasterSlots, MaxDataRows)}
    /\ TInitCommon

TIdle ==
    /\ monthly_files = <<>>
    /\ t_pc = "idle"
    /\ t_var = 1
    /\ t_order = 1
    /\ sort_order_dfs = <<>>
    /\ final_variable_dfs = <<>>
    /\ final_df = EmptyTable

\* the next iteration of "for sort_order", or the code after that loop
TNextBatch ==
    IF t_order < Len(SortOrders)
    THEN t_order' = t_order + 1 /\ t_pc' = "batch"
    ELSE t_order' = t_order /\ t_pc' = "consolidate"

\* lines 253-260, 272-276: no folder, no files or no table with data
TBatchNoData ==
    /\ t_pc = "batch"
    /\ list_of_monthly_dfs(t_var, t_order) = <<>>
    /\ TNextBatch
    /\ UNCHANGED <<monthly_files, t_var, sort_order_dfs, final_variable_dfs, final_df>>

\* lines 268-281
TMergeBatch ==
    /\ t_pc = "batch"
    /\ list_of_monthly_dfs(t_var, t_order) # <<>>
    /\ sort_order_dfs' = Append(sort_order_dfs,
            [sort_order |-> SortOrders[t_order],
             table |-> reduce_merge(list_of_monthly_dfs(t_var, t_order))])
    /\ TNextBatch
    /\ UNCHANGED <<monthly_files, t_var, final_variable_dfs, final_df>>

\* lines 284-289
TConsolidateVariable ==
    /\ t_pc = "consolidate"
    /\ final_variable_dfs' =
        IF Len(sort_order_dfs) > 0
        THEN Append(final_variable_dfs,
                [var |-> VARIABLE_FOLDERS[t_var],
                 table |-> consolidate(TablesOf(sort_order_dfs))])
        ELSE final_variable_dfs
    /\ t_pc' = "next variable"
    /\ UNCHANGED <<monthly_files, t_var, t_order, sort_order_dfs, final_df>>

\* lines 245-249: the next variable starts with an empty sort_order_dfs; after
\* the last variable the final step follows
TNextVariable ==
    /\ t_pc = "next variable"
    /\ IF t_var < Len(VARIABLE_FOLDERS)
       THEN /\ t_var' = t_var + 1
            /\ t_order' = 1
            /\ sort_order_dfs' = <<>>
            /\ t_pc' = "batch"
       ELSE /\ t_pc' = "final"
            /\ UNCHANGED <<t_var, t_order, sort_order_dfs>>
    /\ UNCHANGED <<monthly_files, final_variable_dfs, final_df>>

\* lines 294-303
TFinalMerge ==
    /\ t_pc = "final"
    /\ more_than_one_table(final_variable_dfs)
    /\ final_df' = final_merge(TablesOf(final_variable_dfs))
    /\ t_pc' = "done"
    /\ UNCHANGED <<monthly_files, t_var, t_order, sort_order_dfs, final_variable_dfs>>

\* lines 331-332
TLessThanTwo ==
    /\ t_pc = "final"
    /\ ~more_than_one_table(final_variable_dfs)
    /\ t_pc' = "done"
    /\ UNCHANGED <<monthly_files, t_var, t_order, sort_order_dfs, final_variable_dfs,
                   final_df>>

\* one iteration of "for var" (lines 249-289) on the files of the first variable
InitConsolidate == TInitConsolidate /\ VIdle /\ QIdle /\ RIdle /\ CIdle /\ EIdle
NextConsolidate ==
    \/ TBatchNoData /\ UNCHANGED <<evars, cvars, vvars, qvars, rvars>>
    \/ TMergeBatch /\ UNCHANGED <<evars, cvars, vvars, qvars, rvars>>
    \/ TConsolidateVariable /\ UNCHANGED <<evars, cvars, vvars, qvars, rvars>>
SpecConsolidate == InitConsolidate /\ [][NextConsolidate]_vars

\* the whole main block (lines 245-303) on one monthly file per variable
InitMaster == TInitMaster /\ VIdle /\ QIdle /\ RIdle /\ CIdle /\ EIdle
NextMaster ==
    \/ TBatchNoData /\ UNCHANGED <<evars, cvars, vvars, qvars, rvars>>
    \/ TMergeBatch /\ UNCHANGED <<evars, cvars, vvars, qvars, rvars>>
    \/ TConsolidateVariable /\ UNCHANGED <<evars, cvars, vvars, qvars, rvars>>
    \/ TNextVariable /\ UNCHANGED <<evars, cvars, vvars, qvars, rvars>>
    \/ TFinalMerge /\ UNCHANGED <<evars, cvars, vvars, qvars, rvars>>
    \/ TLessThanTwo /\ UNCHANGED <<evars, cvars, vvars, qvars, rvars>>
SpecMaster == InitMaster /\ [][NextMaster]_vars

\* --- header detection (lines 146-160) on the rows of a data sheet ---
ANCHOR_COLUMN == "HTS Number"
\* line 150: df.head(10)
HEAD_ROWS == 10
\* Rows without the anchor that are enumerated above the varied rows.
MaxJunkRows == 11
\* Varied rows of a sheet that are enumerated.
MaxVariedRows == 2
\* texts of the cell of a row that may name the anchor column
HeaderCells ==
    {"HTS Number", "  HTS Number ", "hts number", "Notes on HTS Number codes", "0101.21"}
DataFrames ==
    {[i \in 1..k |-> "Commodity report"] \o varied :
        k \in 0..MaxJunkRows, varied \in SeqsUpTo(HeaderCells, MaxVariedRows)}
\* str(cell).strip() on the texts that occur
str_strip(text) == IF text = "  HTS Number " THEN "HTS Number" ELSE text
\* line 151: ANCHOR_COLUMN in str(cell).strip(), a substring test that
\* distinguishes upper and lower case
anchor_in_cell(text) ==
    str_strip(text) \in {ANCHOR_COLUMN, "Notes on HTS Number codes"}
\* lines 149-153: the first of the scanned rows with the anchor, else -1;
\* rows are counted from 0 as in the frame
find_header_row(rows) ==
    LET scanned == {i \in 1..HEAD_ROWS : i <= Len(rows) /\ anchor_in_cell(rows[i])}
    IN IF scanned = {} THEN -1 ELSE Min(scanned) - 1
\* lines 154-160: without header the function returns pd.DataFrame(); else
\* the rows 0..header_row_index are dropped
rows_below_header(rows, index) ==
    IF index = -1 THEN <<>> ELSE SubSeq(rows, index + 2, Len(rows))

HInit ==
    /\ h_df \in DataFrames
    /\ header_row_index = -1
    /\ h_data = <<>>
    /\ h_pc = "scan"

\* lines 148-156: the scan finds no header and the function returns
HeaderNotFound ==
    /\ h_pc = "scan"
    /\ find_header_row(h_df) = -1
    /\ h_pc' = "no data"
    /\ UNCHANGED <<h_df, header_row_index, h_data>>

\* lines 148-160: the scan finds the header and the rows above are dropped
HeaderFound ==
    /\ h_pc = "scan"
    /\ find_header_row(h_df) # -1
    /\ header_row_index' = find_header_row(h_df)
    /\ h_data' = rows_below_header(h_df, find_header_row(h_df))
    /\ h_pc' = "shape"
    /\ UNCHANGED h_df

InitHeader == HInit /\ VIdle /\ QIdle /\ RIdle /\ TIdle /\ CIdle /\ KIdle /\ WIdle /\ AIdle /\ PIdle
NextHeader ==
    \/ HeaderNotFound /\ UNCHANGED <<basevars, kvars, wvars, avars, pvars>>
    \/ HeaderFound /\ UNCHANGED <<basevars, kvars, wvars, avars, pvars>>
SpecHeader == InitHeader /\ [][NextHeader]_vars

\* --- the main block on files that fail: the files of the first variable's
\* ascending batch, of its descending batch and of the second variable are
\* readable, lack the header row or raise; the third variable has one good
\* file. ---
FailureSlots == {<<1, 1, 1>>, <<1, 1, 2>>, <<1, 2, 1>>, <<2, 1, 1>>}
FailureSheets ==
    {DataSheet(kind, <<[key |-> <<1, 20>>, value |-> <<1>>]>>) : kind \in SheetKinds}
        \cup {DataSheet("header", <<>>)}
FInit ==
    /\ monthly_files \in
        {[s \in AllSlots |->
            IF s \in FailureSlots THEN f[s]
            ELSE IF s = <<3, 1, 1>>
            THEN DataSheet("header",
                    <<[key |-> <<1, 20>>, unit |-> "number", value |-> <<1>>]>>)
            ELSE DataSheet("header", <<>>)] :
         f \in [FailureSlots -> FailureSheets]}
    /\ TInitCommon
InitFailures == FInit /\ VIdle /\ QIdle /\ RIdle /\ CIdle /\ EIdle
SpecFailures == InitFailures /\ [][NextMaster]_vars

\* --- one folder (lines 257-281): validation, the tables of its files and
\* their merge.  Here monthly_files is the list of the folder's data sheets,
\* in the order of file_paths. ---
BatchRow == [key |-> <<1, 20>>, value |-> <<1>>]
BatchSheets ==
    {DataSheet("header", <<BatchRow>>), DataSheet("header", <<>>),
     DataSheet("no header", <<BatchRow>>), DataSheet("unreadable", <<>>)}

BInit ==
    /\ file_paths \in RunBatches
    /\ folder_name = "Customs value 24-25 ascending"
    /\ validation = Pending
    /\ monthly_files \in [1..Len(file_paths) -> BatchSheets]
    /\ TInitCommon

\* line 270: pool.map(process_single_file, monthly_files); each file's
\* column is named after the month of its own metadata sheet
batch_pool_map ==
    [i \in 1..Len(file_paths) |->
        process_single_file(t_var, file_paths[i], monthly_files[i])]

\* line 272
batch_list_drop_last ==
    LET kept == SelectSeq(batch_pool_map, LAMBDA t : ~IsEmpty(t))
    IN SubSeq(kept, 1, Len(kept) - 1)
batch_list_of_monthly_dfs == SelectSeq(batch_pool_map, LAMBDA t : ~IsEmpty(t))

\* lines 262-266
BValidationFails ==
    /\ t_pc = "batch"
    /\ validate_monthly_files(file_paths, folder_name).status = "ValueError"
    /\ validation' = validate_monthly_files(file_paths, folder_name)
    /\ t_pc' = on_validation_error
    /\ UNCHANGED <<file_paths, folder_name, monthly_files, t_var, t_order,
                   sort_order_dfs, final_variable_dfs, final_df>>

\* lines 262-276
BNoValidData ==
    /\ t_pc = "batch"
    /\ validate_monthly_files(file_paths, folder_name).status = "ok"
    /\ validation' = validate_monthly_files(file_paths, folder_name)
    /\ batch_list_of_monthly_dfs = <<>>
    /\ t_pc' = "batch done"
    /\ UNCHANGED <<file_paths, folder_name, monthly_files, t_var, t_order,
                   sort_order_dfs, final_variable_dfs, final_df>>

\* lines 262-281
BMergeBatch ==
    /\ t_pc = "batch"
    /\ validate_monthly_files(file_paths, folder_name).status = "ok"
    /\ validation' = validate_monthly_files(file_paths, folder_name)
    /\ batch_list_of_monthly_dfs # <<>>
    /\ sort_order_dfs' = Append(sort_order_dfs,
            [sort_order |-> SortOrders[t_order],
             table |-> reduce_merge(batch_list_of_monthly_dfs)])
    /\ t_pc' = "batch done"
    /\ UNCHANGED <<file_paths, folder_name, monthly_files, t_var, t_order,
                   final_variable_dfs, final_df>>

InitBatch == BInit /\ QIdle /\ RIdle /\ CIdle /\ EIdle
NextBatchFolder ==
    \/ BValidationFails /\ UNCHANGED <<evars, cvars, qvars, rvars>>
    \/ BNoValidData /\ UNCHANGED <<evars, cvars, qvars, rvars>>
    \/ BMergeBatch /\ UNCHANGED <<evars, cvars, qvars, rvars>>
SpecBatch == InitBatch /\ [][NextBatchFolder]_vars

\* --- the pool of one batch (lines 268-281): every file has a worker
\* process of its own, the workers complete in any order ---
\* Files of the batch that are enumerated.
MaxPoolFiles == 3
PoolMonth(i) == IndexMonth(MonthIndex(EXPECTED_START_DATE) + i - 1)
\* line 270: pool.map returns the results in the order of its argument
pool_map_by_completion(results, order) == [n \in 1..Len(order) |-> results[order[n]][1]]
pool_map_results(results, order) == [i \in 1..Len(results) |-> results[i][1]]

WInit ==
    /\ w_files \in [1..MaxPoolFiles -> BatchSheets]
    /\ w_results = [i \in 1..MaxPoolFiles |-> <<>>]
    /\ w_order = <<>>
    /\ w_list = <<>>
    /\ w_pc = "pool"

\* lines 121-209 in the worker of file i: the function reads file_path and
\* returns its table
WorkerReturns ==
    /\ w_pc = "pool"
    /\ \E i \in 1..Len(w_files) :
        /\ w_results[i] = <<>>
        /\ w_results' = [w_results EXCEPT
                ![i] = <<process_single_file(1, PoolMonth(i), w_files[i])>>]
        /\ w_order' = Append(w_order, i)
    /\ UNCHANGED <<w_files, w_list, w_pc>>

\* lines 270-272: pool.map returns when every worker has, and the empty
\* tables are dropped
PoolMapReturns ==
    /\ w_pc = "pool"
    /\ \A i \in 1..Len(w_files) : w_results[i] # <<>>
    /\ w_list' = SelectSeq(pool_map_results(w_results, w_order), LAMBDA t : ~IsEmpty(t))
    /\ w_pc' = "merge"
    /\ UNCHANGED <<w_files, w_results, w_order>>

InitPool == WInit /\ VIdle /\ QIdle /\ RIdle /\ TIdle /\ CIdle /\ KIdle /\ HIdle /\ AIdle /\ PIdle
NextPool ==
    \/ WorkerReturns /\ UNCHANGED <<basevars, kvars, hvars, avars, pvars>>
    \/ PoolMapReturns /\ UNCHANGED <<basevars, kvars, hvars, avars, pvars>>
SpecPool == InitPool /\ [][NextPool]_vars

(***************************************************************************)
(* 5. Cross-check script (src/src/04c_usitc_data_local_crosscheck.py):     *)
(*    canonical long tables of the two sources, their comparison and the   *)
(*    selection of the discrepancies                                       *)
(***************************************************************************)
\* The Value columns are float64.  The model keeps the rounding of float
\* arithmetic with a short mantissa: a float is an integer m * 2^e with
\* |m| < 2^MantissaBits, and an operation rounds its exact result to the
\* nearest float, a tie to the even mantissa.
MantissaBits == 3
\* Rows of the wide master table that are enumerated.
MaxWideRows == 3

RECURSIVE float_exponent(_)
float_exponent(x) == IF x < 2^MantissaBits THEN 0 ELSE 1 + float_exponent(x \div 2)

RECURSIVE float_round(_)
float_round(x) ==
    IF x < 0 THEN 0 - float_round(0 - x)
    ELSE IF x < 2^MantissaBits THEN x
    ELSE LET e == float_exponent(x)
             q == x \div 2^e
             r == x % 2^e
             half == 2^(e - 1)
         IN IF r > half \/ (r = half /\ q % 2 = 1) THEN (q + 1) * 2^e ELSE q * 2^e

\* A cell of an input table: a number, a text that is no number, or missing.
RawCells == {<<"num", 1>>, <<"num", 2^MantissaBits + 2>>, <<"text", 0>>, <<"nan", 0>>}

\* lines 72, 183: pd.to_numeric(errors='coerce').fillna(0)
value_to_numeric_one(cell) == IF cell[1] = "num" THEN cell[2] ELSE 1
value_to_numeric(cell) == IF cell[1] = "num" THEN cell[2] ELSE 0

\* lines 70, 169: .str.strip().str.title() on the country names that occur
RawCountries == {"india", " India ", "CHINA"}
strip_title(country) ==
    CASE country = "india" -> "India"
      [] country = " India " -> "India"
      [] country = "CHINA" -> "China"

\* lines 83-87, 194-198: the sum of one group.  pandas adds the group's
\* values in row order with a compensated (Kahan) summation.
group_sum_last(values, sumx, compensation) ==
    IF values = <<>> THEN sumx ELSE values[Len(values)]
RECURSIVE group_sum(_, _, _)
group_sum(values, sumx, compensation) ==
    IF values = <<>> THEN sumx
    ELSE LET y == float_round(Head(values) - compensation)
             t == float_round(sumx + y)
             c == float_round(float_round(t - sumx) - y)
         IN group_sum(Tail(values), t, c)

\* The keys <<Country, Year, Month, Variable>> in the order groupby and merge
\* sort them.  A Variable is the sequence of its '_'-joined tokens.
sorted_keys(S) ==
    LET SortedCountries == <<"China", "India">>
        SortedYears == <<2024>>
        SortedMonthNames == <<"Feb", "Jan">>
        SortedVariables ==
            <<<<>>, <<"calculated">>, <<"customs">>, <<"quantity", "value">>,
              <<"unknown">>>>
        nc == Len(SortedCountries)
        ny == Len(SortedYears)
        nm == Len(SortedMonthNames)
        nv == Len(SortedVariables)
        all == [n \in 1..(nc * ny * nm * nv) |->
                  <<SortedCountries[((n - 1) \div (ny * nm * nv)) + 1],
                    SortedYears[(((n - 1) \div (nm * nv)) % ny) + 1],
                    SortedMonthNames[(((n - 1) \div nv) % nm) + 1],
                    SortedVariables[((n - 1) % nv) + 1]>>]
    IN SelectSeq(all, LAMBDA k : k \in S)

aggregate_ungrouped(df_long) ==
    LET kept == SelectSeq(df_long, LAMBDA r : r.Year # <<>> /\ r.Month # <<>>)
    IN [n \in 1..Len(kept) |->
            [key |-> <<kept[n].Country, kept[n].Year[1], kept[n].Month[1],
                       kept[n].Variable>>,
             Value |-> kept[n].Value]]
\* lines 74-87, 185-198: rows with a missing key field are dropped, the
\* others grouped by the key and their values summed.  A long row is a
\* record [Country, Year, Month, Variable, Value] with Year and Month as
\* cells; Country and Variable are not missing in the tables modelled.
aggregate(df_long) ==
    LET kept == SelectSeq(df_long, LAMBDA r : r.Year # <<>> /\ r.Month # <<>>)
        KeyAt(r) == <<r.Country, r.Year[1], r.Month[1], r.Variable>>
        keys == sorted_keys({KeyAt(kept[i]) : i \in 1..Len(kept)})
        ValuesOf(k) ==
            LET rows == SelectSeq(kept, LAMBDA r : KeyAt(r) = k)
            IN [i \in 1..Len(rows) |-> rows[i].Value]
    IN [n \in 1..Len(keys) |->
            [key |-> keys[n], Value |-> group_sum(ValuesOf(keys[n]), 0, 0)]]

\* --- load_your_data: the wide master table.  A column name is the sequence
\* of its '_'-separated tokens; a row holds its Country and one cell per
\* value column (the HTS Number column is carried along by melt and not
\* read afterwards). ---
WideColumns ==
    {<<<<"Customs", "Jan", "2024">>>>,
     <<<<"quantity", "Value", "Feb", "2024">>>>,
     <<<<"Description">>>>}

\* line 65: .str.lower() on the tokens that occur
lower(token) ==
    CASE token = "Customs" -> "customs"
      [] token = "quantity" -> "quantity"
      [] token = "Value" -> "value"
      [] token = "Description" -> "description"

\* lines 62-65, 71: Year is the last token made a number, Month the token
\* before it (missing if there is none), Variable the tokens before these
parse_metric_first_token(metric) ==
    LET n == Len(metric)
    IN [Year |-> IF metric[n] = "2024" THEN <<2024>> ELSE <<>>,
        Month |-> IF n >= 2 THEN <<metric[n - 1]>> ELSE <<>>,
        Variable |-> [i \in 1..(IF n >= 3 THEN 1 ELSE 0) |-> lower(metric[i])]]
parse_metric(metric) ==
    LET n == Len(metric)
    IN [Year |-> IF metric[n] = "2024" THEN <<2024>> ELSE <<>>,
        Month |-> IF n >= 2 THEN <<metric[n - 1]>> ELSE <<>>,
        Variable |-> [i \in 1..(IF n >= 2 THEN n - 2 ELSE 0) |-> lower(metric[i])]]

\* lines 52-72: pd.melt lists the cells column by column, in row order
melt_master(raw) ==
    [n \in 1..(Len(raw.cols) * Len(raw.rows)) |->
        LET c == ((n - 1) \div Len(raw.rows)) + 1
            r == ((n - 1) % Len(raw.rows)) + 1
            parsed == parse_metric(raw.cols[c])
        IN [Country |-> strip_title(raw.rows[r].Country),
            Year |-> parsed.Year,
            Month |-> parsed.Month,
            Variable |-> parsed.Variable,
            Value |-> value_to_numeric(raw.rows[r].cells[c])]]

\* lines 50-100, built from the master file
load_your_data(raw) == aggregate(melt_master(raw))

\* --- load_official_data: the workbook's data sheets, in the order of the
\* metadata sheet; a row holds Country, Year and one cell per month column ---
OfficialMonthColumns == <<"January">>
SheetRows ==
    [Country : {" India ", "CHINA"},
     Year : {<<"num", 2024>>, <<"text", 0>>},
     cells : [1..Len(OfficialMonthColumns) ->
                {<<"num", 1>>, <<"num", 2>>, <<"nan", 0>>}]]

\* lines 161-166
var_map(sheet_name) ==
    CASE sheet_name = "Customs Value" -> <<"customs">>
      [] sheet_name = "Calculated Duties" -> <<"calculated">>
      [] sheet_name = "First Unit of Quantity" -> <<"quantity", "value">>
      [] OTHER -> <<"unknown">>
\* lines 172-179, on the month columns that occur
month_map(month) ==
    CASE month = "January" -> "Jan"
      [] month = "February" -> "Feb"
      [] OTHER -> month

\* lines 126-150, 166-183: every sheet melted column by column, the sheets
\* stacked in order; a Year that is no number is missing (line 182)
RECURSIVE melt_official(_)
melt_official(sheets) ==
    IF sheets = <<>> THEN <<>>
    ELSE LET sheet == Head(sheets)
             nr == Len(sheet.rows)
         IN [n \in 1..(Len(OfficialMonthColumns) * nr) |->
                LET c == ((n - 1) \div nr) + 1
                    r == ((n - 1) % nr) + 1
                IN [Country |-> strip_title(sheet.rows[r].Country),
                    Year |-> IF sheet.rows[r].Year[1] = "num"
                             THEN <<sheet.rows[r].Year[2]>> ELSE <<>>,
                    Month |-> <<month_map(OfficialMonthColumns[c])>>,
                    Variable |-> var_map(sheet.name),
                    Value |-> value_to_numeric(sheet.rows[r].cells[c])]]
            \o melt_official(Tail(sheets))

\* lines 105-212
load_official_data(sheets) == aggregate(melt_official(sheets))

\* --- compare_datasets and generate_report ---
\* line 14
TOLERANCE == 1

\* lines 261-263: Difference / Official_Value.replace(0, nan) * 100.  The
\* quotient is kept as the pair <<100 * Difference, Official_Value>>, a
\* missing result as <<>>.
percent_diff_unguarded(difference, official_value) ==
    <<100 * difference, official_value>>
percent_diff(difference, official_value) ==
    IF official_value = 0 THEN <<>> ELSE <<100 * difference, official_value>>

\* lines 255-263: the columns computed for one row of the join; a side
\* without the key has its value missing (<<>>) before fillna(0)
difference_swapped(your_value, official_value) == float_round(official_value - your_value)
difference(your_value, official_value) == float_round(your_value - official_value)
comparison_row_signed_abs(k, official_cell, your_cell, merge) ==
    LET o == IF official_cell = <<>> THEN 0 ELSE official_cell[1]
        y == IF your_cell = <<>> THEN 0 ELSE your_cell[1]
        d == difference(y, o)
    IN [key |-> k, Official_Value |-> o, Your_Value |-> y, _merge |-> merge,
        Difference |-> d, Abs_Difference |-> d, Percent_Diff |-> percent_diff(d, o)]
comparison_row(k, official_cell, your_cell, merge) ==
    LET o == IF official_cell = <<>> THEN 0 ELSE official_cell[1]
        y == IF your_cell = <<>> THEN 0 ELSE your_cell[1]
        d == difference(y, o)
    IN [key |-> k, Official_Value |-> o, Your_Value |-> y, _merge |-> merge,
        Difference |-> d,
        Abs_Difference |-> IF d < 0 THEN 0 - d ELSE d,
        Percent_Diff |-> percent_diff(d, o)]

\* lines 246-252: the rows of the outer join for one key, the official table
\* on the left
indicator_from_values(ls, rs) ==
    IF ls # <<>> /\ ls[1].Value # 0 /\ rs # <<>> /\ rs[1].Value # 0 THEN "both"
    ELSE IF rs = <<>> \/ rs[1].Value = 0 THEN "left_only" ELSE "right_only"
indicator(ls, rs) ==
    IF ls # <<>> /\ rs # <<>> THEN "both"
    ELSE IF rs = <<>> THEN "left_only" ELSE "right_only"
compare_key_rows(your, official, k) ==
    LET ls == SelectSeq(official, LAMBDA r : r.key = k)
        rs == SelectSeq(your, LAMBDA r : r.key = k)
    IN IF rs = <<>>
       THEN [i \in 1..Len(ls) |-> comparison_row(k, <<ls[i].Value>>, <<>>, indicator(ls, rs))]
       ELSE IF ls = <<>>
       THEN [i \in 1..Len(rs) |-> comparison_row(k, <<>>, <<rs[i].Value>>, indicator(ls, rs))]
       ELSE [n \in 1..(Len(ls) * Len(rs)) |->
                comparison_row(k, <<ls[((n - 1) \div Len(rs)) + 1].Value>>,
                               <<rs[((n - 1) % Len(rs)) + 1].Value>>, indicator(ls, rs))]

RECURSIVE compare_rows(_, _, _)
compare_rows(your, official, keys) ==
    IF keys = <<>> THEN <<>>
    ELSE compare_key_rows(your, official, Head(keys))
            \o compare_rows(your, official, Tail(keys))

\* lines 239-274
compare_datasets(your, official) ==
    compare_rows(your, official,
        sorted_keys({your[i].key : i \in 1..Len(your)}
                        \cup {official[i].key : i \in 1..Len(official)}))

\* line 288
is_inconsistent_at_least(row) ==
    (IF row.Difference < 0 THEN 0 - row.Difference ELSE row.Difference) >= TOLERANCE
is_inconsistent(row) ==
    (IF row.Difference < 0 THEN 0 - row.Difference ELSE row.Difference) > TOLERANCE

keep_order(rows) == rows
RECURSIVE sort_by_abs_difference(_)
\* line 296: sort_values('Abs_Difference', ascending=False); rows of equal
\* Abs_Difference are kept in their order
sort_by_abs_difference(rows) ==
    IF rows = <<>> THEN <<>>
    ELSE LET top == CHOOSE i \in 1..Len(rows) :
                        /\ \A j \in 1..Len(rows) :
                                rows[j].Abs_Difference <= rows[i].Abs_Difference
                        /\ \A j \in 1..(i - 1) :
                                rows[j].Abs_Difference < rows[i].Abs_Difference
         IN <<rows[top]>> \o sort_by_abs_difference(
                AtPositions(rows, (1..Len(rows)) \ {top}))

\* lines 287-296
generate_report(comparison) ==
    sort_by_abs_difference(SelectSeq(comparison, is_inconsistent))

\* --- main (lines 403-448), both files readable and no cache ---
WideTables ==
    UNION {[cols : {cols},
            rows : SeqsUpTo([Country : RawCountries,
                             cells : [1..Len(cols) -> RawCells]], MaxWideRows)] :
            cols \in WideColumns}
\* Rows of the official workbook that are enumerated.
MaxSheetRows == 2
Workbooks ==
    LET some == SeqsUpTo(SheetRows, MaxSheetRows)
        Sheets == [name : {"Customs Value", "Summary", "Notes"}, rows : some]
    IN {<<>>} \cup {<<sh>> : sh \in Sheets}
        \cup {<<pair[1], pair[2]>> : pair \in
                {p \in Sheets \X Sheets :
                    /\ p[1].name # p[2].name
                    /\ Len(p[1].rows) + Len(p[2].rows) <= MaxSheetRows}}
SmallMaster ==
    [cols |-> <<<<"Customs", "Jan", "2024">>>>,
     rows |-> <<[Country |-> "india", cells |-> <<<<"num", 1>>>>]>>]
SmallWorkbook ==
    <<[name |-> "Customs Value",
       rows |-> <<[Country |-> " India ", Year |-> <<"num", 2024>>,
                   cells |-> <<<<"num", 1>>>>],
                  [Country |-> "CHINA", Year |-> <<"num", 2024>>,
                   cells |-> <<<<"nan", 0>>>>],
                  [Country |-> " India ", Year |-> <<"num", 2024>>,
                   cells |-> <<<<"num", 1>>>>]>>]>>

\* Master files with two value columns and a text column, so that one run
\* holds keys of the master alone, of the workbook alone and of both, and
\* a column whose name carries no year.
MaxMixedRows == 2
MixedMasters ==
    [cols : {<<<<"Customs", "Jan", "2024">>, <<"quantity", "Value", "Feb", "2024">>,
               <<"Description">>>>},
     rows : SeqsUpTo({[Country |-> country, cells |-> <<a, b, <<"text", 0>>>>] :
                        country \in {"india", "CHINA"},
                        a \in {<<"num", 1>>, <<"nan", 0>>},
                        b \in {<<"num", 1>>, <<"nan", 0>>}}, MaxMixedRows)]

CInit ==
    /\ \/ df_raw \in WideTables /\ data_sheets = SmallWorkbook
       \/ df_raw \in MixedMasters /\ data_sheets = SmallWorkbook
       \/ df_raw = SmallMaster /\ data_sheets \in Workbooks
    /\ your_df = <<>>
    /\ official_df = <<>>
    /\ comparison_df = <<>>
    /\ inconsistencies = <<>>
    /\ c_pc = "load yours"

\* lines 415-419
LoadYourData ==
    /\ c_pc = "load yours"
    /\ your_df' = load_your_data(df_raw)
    /\ c_pc' = "load official"
    /\ UNCHANGED <<df_raw, data_sheets, official_df, comparison_df, inconsistencies>>

\* lines 426-428
LoadOfficialData ==
    /\ c_pc = "load official"
    /\ official_df' = load_official_data(data_sheets)
    /\ c_pc' = "compare"
    /\ UNCHANGED <<df_raw, data_sheets, your_df, comparison_df, inconsistencies>>

\* line 435
CompareDatasets ==
    /\ c_pc = "compare"
    /\ comparison_df' = compare_datasets(your_df, official_df)
    /\ c_pc' = "report"
    /\ UNCHANGED <<df_raw, data_sheets, your_df, official_df, inconsistencies>>

\* lines 438-441: without inconsistencies the function reports success and
\* returns (line 293); otherwise it prints the report and writes the
\* workbook (lines 336-390), or prints the error of a write that raised
\* (lines 392-397)
GenerateReport ==
    /\ c_pc = "report"
    /\ inconsistencies' = generate_report(comparison_df)
    /\ c_pc' \in IF inconsistencies' = <<>> THEN {"matched"}
                  ELSE {"reported", "report not saved"}
    /\ UNCHANGED <<df_raw, data_sheets, your_df, official_df, comparison_df>>

InitCrosscheck == CInit /\ VIdle /\ QIdle /\ RIdle /\ TIdle /\ EIdle
NextCrosscheck ==
    \/ LoadYourData /\ UNCHANGED <<evars, vvars, qvars, rvars, tvars>>
    \/ LoadOfficialData /\ UNCHANGED <<evars, vvars, qvars, rvars, tvars>>
    \/ CompareDatasets /\ UNCHANGED <<evars, vvars, qvars, rvars, tvars>>
    \/ GenerateReport /\ UNCHANGED <<evars, vvars, qvars, rvars, tvars>>
SpecCrosscheck == InitCrosscheck /\ [][NextCrosscheck]_vars

\* --- load_your_data as a whole (lines 18-100) over several runs of the
\* script: the master file and the cache file persist between the calls and
\* can be changed, removed or damaged between them ---
\* Number of calls of load_your_data that is enumerated.
MaxRuns == 3
ChangedMaster ==
    [cols |-> <<<<"Customs", "Jan", "2024">>>>,
     rows |-> <<[Country |-> "india", cells |-> <<<<"num", 2>>>>]>>]
MasterFiles ==
    {[state |-> "readable", raw |-> SmallMaster],
     [state |-> "readable", raw |-> ChangedMaster],
     [state |-> "unreadable", raw |-> <<>>]}
AbsentCache == [state |-> "absent", table |-> <<>>]
UnreadableCache == [state |-> "unreadable", table |-> <<>>]
StoredCache(table) == [state |-> "readable", table |-> table]
\* outcomes of df_agg.to_parquet(cache_path) at lines 94-98
SaveOutcomes == {"saved", "failed, file as before", "failed, file damaged"}

\* line 27: os.path.exists(cache_path) and not force_rebuild
cache_ignored(cache, force_rebuild) == FALSE
cache_usable(cache, force_rebuild) == cache.state # "absent" /\ ~force_rebuild

\* lines 18-100: what the call returns, whether it read the master file and
\* the cache file it leaves
load_your_data_call(master, cache, force_rebuild, save) ==
    IF cache_usable(cache, force_rebuild) /\ cache.state = "readable"
    THEN [returned |-> <<cache.table>>, read_master |-> FALSE, cache |-> cache]
    ELSE IF master.state # "readable"
    THEN [returned |-> <<>>, read_master |-> TRUE, cache |-> cache]
    ELSE [returned |-> <<load_your_data(master.raw)>>,
          read_master |-> TRUE,
          cache |-> CASE save = "saved" -> StoredCache(load_your_data(master.raw))
                      [] save = "failed, file as before" -> cache
                      [] OTHER -> UnreadableCache]

KInit ==
    /\ master_file \in MasterFiles
    /\ cache_file = AbsentCache
    /\ k_call = <<>>
    /\ k_runs = 0

\* one run of the script as far as load_your_data (lines 415-419; the flag
\* is an argument of the function)
KLoadYourData ==
    /\ k_runs < MaxRuns
    /\ \E force_rebuild \in BOOLEAN, save \in SaveOutcomes :
        LET call == load_your_data_call(master_file, cache_file, force_rebuild, save)
        IN /\ cache_file' = call.cache
           /\ k_call' = [force_rebuild |-> force_rebuild,
                         master |-> master_file,
                         cache_before |-> cache_file,
                         cache_after |-> call.cache,
                         read_master |-> call.read_master,
                         returned |-> call.returned]
    /\ k_runs' = k_runs + 1
    /\ UNCHANGED master_file

\* between two runs the master file is rebuilt or becomes unreadable
KMasterChanges ==
    /\ master_file' \in MasterFiles \ {master_file}
    /\ UNCHANGED <<cache_file, k_call, k_runs>>

\* between two runs the cache file is removed or damaged
KCacheChanges ==
    /\ cache_file' \in {AbsentCache, UnreadableCache} \ {cache_file}
    /\ UNCHANGED <<master_file, k_call, k_runs>>

InitCache == KInit /\ VIdle /\ QIdle /\ RIdle /\ TIdle /\ CIdle /\ HIdle /\ WIdle /\ AIdle /\ PIdle
NextCache ==
    \/ KLoadYourData /\ UNCHANGED <<basevars, hvars, wvars, avars, pvars>>
    \/ KMasterChanges /\ UNCHANGED <<basevars, hvars, wvars, avars, pvars>>
    \/ KCacheChanges /\ UNCHANGED <<basevars, hvars, wvars, avars, pvars>>
SpecCache == InitCache /\ [][NextCache]_vars

(***************************************************************************)
(* 6. Download script (src/src/03_fetch_usitc_data_all.py):                *)
(*    make_api_request                                                     *)
(***************************************************************************)
\* lines 74-75
max_retries == 4
base_delay == 5
\* what an HTTP attempt can meet: a status code or an exception of requests
HttpOutcomes == {"200", "429", "404", "500", "Timeout", "ConnectionError"}
\* lines 85-86, 95: a 429 is raised as RequestException and handled like one
is_request_exception(outcome) == outcome \in {"429", "Timeout", "ConnectionError"}
\* line 97
wait_time_linear(n) == base_delay * (n + 1)
wait_time(n) == base_delay * (2 ^ n)

AInit ==
    /\ attempt = 0
    /\ a_outcomes = <<>>
    /\ a_sleeps = <<>>
    /\ a_return = "pending"

\* lines 78-93: the attempt gets status 200 and the response is returned
RequestSucceeds ==
    /\ a_return = "pending"
    /\ attempt < max_retries
    /\ a_outcomes' = Append(a_outcomes, "200")
    /\ a_return' = "response"
    /\ UNCHANGED <<attempt, a_sleeps>>

\* lines 78-91: a status other than 200 and 429 ends the function with None
RequestUnrecoverable ==
    /\ a_return = "pending"
    /\ attempt < max_retries
    /\ \E outcome \in HttpOutcomes :
        /\ outcome # "200"
        /\ ~is_request_exception(outcome)
        /\ a_outcomes' = Append(a_outcomes, outcome)
    /\ a_return' = "None"
    /\ UNCHANGED <<attempt, a_sleeps>>

\* lines 95-99: a 429 or an exception before the last attempt: the function
\* sleeps and the loop goes on
RequestRetried ==
    /\ a_return = "pending"
    /\ attempt < max_retries - 1
    /\ \E outcome \in HttpOutcomes :
        /\ is_request_exception(outcome)
        /\ a_outcomes' = Append(a_outcomes, outcome)
    /\ a_sleeps' = Append(a_sleeps, wait_time(attempt))
    /\ attempt' = attempt + 1
    /\ UNCHANGED a_return

\* lines 95-102: a 429 or an exception at the last attempt ends the function
RetriesExceeded ==
    /\ a_return = "pending"
    /\ attempt = max_retries - 1
    /\ \E outcome \in HttpOutcomes :
        /\ is_request_exception(outcome)
        /\ a_outcomes' = Append(a_outcomes, outcome)
    /\ a_return' = "None"
    /\ UNCHANGED <<attempt, a_sleeps>>

InitRequest == AInit /\ VIdle /\ QIdle /\ RIdle /\ TIdle /\ CIdle /\ KIdle /\ HIdle /\ WIdle /\ PIdle
NextRequest ==
    \/ RequestSucceeds /\ UNCHANGED <<basevars, kvars, hvars, wvars, pvars>>
    \/ RequestUnrecoverable /\ UNCHANGED <<basevars, kvars, hvars, wvars, pvars>>
    \/ RequestRetried /\ UNCHANGED <<basevars, kvars, hvars, wvars, pvars>>
    \/ RetriesExceeded /\ UNCHANGED <<basevars, kvars, hvars, wvars, pvars>>
SpecRequest == InitRequest /\ [][NextRequest]_vars

(***************************************************************************)
(* 7. Download script: the loop over the countries with its checkpoint in  *)
(*    the output file (lines 119-217), over interrupted and restarted runs *)
(***************************************************************************)
\* Runs of the script that are enumerated.
MaxResumeRuns == 3
country_list == <<"Aruba", "Belize">>
\* what the queries of a country give: data rows, a table without rows, or
\* no table at all (also when every request failed)
QueryResults == {"rows", "no rows", "no table"}
HeaderLine == [kind |-> "header", country |-> ""]
CsvLine(kind, country) == [kind |-> kind, country |-> country]

\* lines 121-129: the Country values of the file, if it can be read and has
\* a Country column.  read_csv takes the first line as the header; when
\* that is a bare country name the frame has no Country column or the read
\* raises, and the set stays empty either way.
read_checkpoint(file) ==
    IF file = <<>> THEN {}
    ELSE IF Head(file).kind = "header"
    THEN {file[i].country : i \in 2..Len(file)}
    ELSE {}

\* lines 203-216: the rows are appended, with the header if the file is new;
\* without rows a placeholder is written only if the file does not exist
save_country(file, headers, country, result) ==
    IF result = "rows" /\ headers
    THEN file \o (IF file = <<>> THEN <<HeaderLine>> ELSE <<>>)
              \o <<CsvLine("rows", country)>>
    ELSE IF file = <<>>
    THEN IF headers THEN <<HeaderLine, CsvLine("placeholder", country)>>
         ELSE <<CsvLine("name only", country)>>
    ELSE file

PInit ==
    /\ output_file = <<>>
    /\ countries_already_processed = {}
    /\ column_headers = FALSE
    /\ p_i = 1
    /\ p_pc = "start"
    /\ p_queried = [c \in Range(country_list) |-> 0]
    /\ p_completed = {}
    /\ p_runs = 0

\* lines 107-131: a run starts and reads the checkpoint
StartRun ==
    /\ p_pc \in {"start", "stopped", "finished"}
    /\ p_runs < MaxResumeRuns
    /\ countries_already_processed' = read_checkpoint(output_file)
    /\ column_headers' = FALSE
    /\ p_i' = 1
    /\ p_pc' = "running"
    /\ p_runs' = p_runs + 1
    /\ UNCHANGED <<output_file, p_queried, p_completed>>

\* lines 134-138
SkipCountry ==
    /\ p_pc = "running"
    /\ p_i <= Len(country_list)
    /\ country_list[p_i] \in countries_already_processed
    /\ p_i' = p_i + 1
    /\ UNCHANGED <<output_file, countries_already_processed, column_headers, p_pc,
                   p_queried, p_completed, p_runs>>

\* lines 140-216: the country is queried and saved
ProcessCountry ==
    /\ p_pc = "running"
    /\ p_i <= Len(country_list)
    /\ country_list[p_i] \notin countries_already_processed
    /\ \E result \in QueryResults :
        LET headers == column_headers \/ result # "no table"
        IN /\ column_headers' = headers
           /\ output_file' = save_country(output_file, headers, country_list[p_i], result)
    /\ p_queried' = [p_queried EXCEPT ![country_list[p_i]] = @ + 1]
    /\ p_completed' = p_completed \cup {country_list[p_i]}
    /\ p_i' = p_i + 1
    /\ UNCHANGED <<countries_already_processed, p_pc, p_runs>>

\* the run is interrupted during the queries of a country (lines 140-200),
\* before anything of it is saved
InterruptedInCountry ==
    /\ p_pc = "running"
    /\ p_i <= Len(country_list)
    /\ country_list[p_i] \notin countries_already_processed
    /\ p_queried' = [p_queried EXCEPT ![country_list[p_i]] = @ + 1]
    /\ p_pc' = "stopped"
    /\ UNCHANGED <<output_file, countries_already_processed, column_headers, p_i,
                   p_completed, p_runs>>

\* line 219: the loop is over
FinishRun ==
    /\ p_pc = "running"
    /\ p_i > Len(country_list)
    /\ p_pc' = "finished"
    /\ UNCHANGED <<output_file, countries_already_processed, column_headers, p_i,
                   p_queried, p_completed, p_runs>>

InitResume == PInit /\ VIdle /\ QIdle /\ RIdle /\ TIdle /\ CIdle /\ KIdle /\ HIdle /\ WIdle /\ AIdle
NextResume ==
    \/ StartRun /\ UNCHANGED <<basevars, kvars, hvars, wvars, avars>>
    \/ SkipCountry /\ UNCHANGED <<basevars, kvars, hvars, wvars, avars>>
    \/ ProcessCountry /\ UNCHANGED <<basevars, kvars, hvars, wvars, avars>>
    \/ InterruptedInCountry /\ UNCHANGED <<basevars, kvars, hvars, wvars, avars>>
    \/ FinishRun /\ UNCHANGED <<basevars, kvars, hvars, wvars, avars>>
SpecResume == InitResume /\ [][NextResume]_vars

(***************************************************************************)
(* Specifications of the control flow and of the pure parts                *)
(***************************************************************************)
InitRun == RInit /\ VIdle /\ QIdle /\ TIdle /\ CIdle /\ EIdle
NextRun ==
    \/ FolderNotFound /\ UNCHANGED <<evars, cvars, qvars, tvars>>
    \/ NoExcelFiles /\ UNCHANGED <<evars, cvars, qvars, tvars>>
    \/ ValidationFails /\ UNCHANGED <<evars, cvars, qvars, tvars>>
    \/ NoValidData /\ UNCHANGED <<evars, cvars, qvars, tvars>>
    \/ BatchMerged /\ UNCHANGED <<evars, cvars, qvars, tvars>>
    \/ ConsolidateVariable /\ UNCHANGED <<evars, cvars, qvars, tvars>>
    \/ FinalMerge /\ UNCHANGED <<evars, cvars, qvars, tvars>>
    \/ LessThanTwoVariables /\ UNCHANGED <<evars, cvars, qvars, tvars>>
    \/ WriteArtifact /\ UNCHANGED <<evars, cvars, qvars, tvars>>
    \/ WriteRaises /\ UNCHANGED <<evars, cvars, qvars, tvars>>
Spec == InitRun /\ [][NextRun]_vars

InitValidate == VInit /\ QIdle /\ RIdle /\ TIdle /\ CIdle /\ EIdle
NextValidate == Validate /\ UNCHANGED <<evars, cvars, qvars, rvars, tvars>>
SpecValidate == InitValidate /\ [][NextValidate]_vars

InitQuantity == QInit /\ VIdle /\ RIdle /\ TIdle /\ CIdle /\ EIdle
NextQuantity ==
    \/ ProcessQuantityFile /\ UNCHANGED <<evars, cvars, vvars, rvars, tvars>>
    \/ RerunResolution /\ UNCHANGED <<evars, cvars, vvars, rvars, tvars>>
SpecQuantity == InitQuantity /\ [][NextQuantity]_vars

(***************************************************************************)
(* Claims about month validation (checked under SpecValidate)              *)
(***************************************************************************)
\* The expected contiguous range, stated independently of date_range.
ClaimExpectedRange ==
    {<<2024 + ((k - 1) \div 12), ((k - 1) % 12) + 1>> : k \in 1..ExpectedLen}

ValidationDone == validation.status # "pending"
Accepted == validation.status = "ok"
Rejected == validation.status = "ValueError"
CarriedPairs == Range(file_paths)
PairwiseDistinct ==
    \A i, j \in 1..Len(file_paths) : i # j => file_paths[i] # file_paths[j]
DuplicatedMonths ==
    {file_paths[i] : i \in {a \in 1..Len(file_paths) :
        \E b \in 1..Len(file_paths) : a # b /\ file_paths[a] = file_paths[b]}}
\* every file carries a (year, month) pair: both metadata entries are present
EveryFileCarriesPair ==
    \A i \in 1..Len(file_paths) : file_paths[i][1] # 0 /\ file_paths[i][2] # 0

\* C1 as stated: a batch is accepted only if its (year, month) pairs are
\* duplicate-free and exactly equal the expected range.
C1_AcceptsOnlyExactRange ==
    Accepted => (PairwiseDistinct /\ CarriedPairs = ClaimExpectedRange)

\* C1 amended: a batch is accepted only if its (year, month) pairs are
\* duplicate-free and include every month of the expected range; a batch with
\* a missing or a duplicated month is rejected with a ValueError, and a
\* duplicate-free batch of files that all carry a pair and cover the range is
\* accepted even when it also holds months outside the range.
C1_AcceptsOnlyCoveringRange ==
    /\ Accepted => (PairwiseDistinct /\ ClaimExpectedRange \subseteq CarriedPairs)
    /\ (ValidationDone /\ ~(ClaimExpectedRange \subseteq CarriedPairs)) => Rejected
    /\ (ValidationDone /\ ~PairwiseDistinct) => Rejected
    /\ (ValidationDone /\ EveryFileCarriesPair /\ PairwiseDistinct
            /\ ClaimExpectedRange \subseteq CarriedPairs) => Accepted

\* C1 witness: a duplicate-free batch with a month outside the range was accepted.
C1_Witness ==
    /\ Accepted
    /\ ClaimExpectedRange \subseteq CarriedPairs
    /\ CarriedPairs # ClaimExpectedRange

\* C2: a batch whose files carry pairwise distinct (year, month) pairs that do
\* not include every expected month gets a ValueError that names the folder and
\* lists exactly the absent expected months.
C2_MissingMonthsNamed ==
    (ValidationDone /\ EveryFileCarriesPair /\ PairwiseDistinct
        /\ ~(ClaimExpectedRange \subseteq CarriedPairs))
    => /\ Rejected
       /\ validation.message = "Missing months"
       /\ validation.folder = folder_name
       /\ Range(validation.months) = ClaimExpectedRange \ CarriedPairs
       /\ Len(validation.months) = Cardinality(ClaimExpectedRange \ CarriedPairs)

\* C2 witness: the batch {2024-01, 2024-03} was rejected naming 2024-02.
C2_Witness ==
    /\ file_paths = << <<2024, 1>>, <<2024, 3>> >>
    /\ Rejected
    /\ validation.months = << <<2024, 2>> >>

\* C3 as stated: two files with the same (year, month) give a ValueError that
\* identifies the folder and the duplicated months, and the duplicate error is
\* raised only when some (year, month) is duplicated in the batch.
C3_DuplicateErrorExact ==
    /\ (ValidationDone /\ DuplicatedMonths # {}) =>
          /\ Rejected
          /\ validation.message = "Duplicate months found"
          /\ validation.folder = folder_name
          /\ Range(validation.months) = DuplicatedMonths
    /\ validation.message = "Duplicate months found" => DuplicatedMonths # {}

(***************************************************************************)
(* Claims about quantity conflict resolution (checked under SpecQuantity)  *)
(***************************************************************************)
\* the numeric value of an input cell (non-numeric and empty cells count as 0)
ClaimValue(cell) == IF cell = <<>> THEN 0 ELSE cell[1]
\* keys whose input rows disagree on the unit
ClaimConflictKeys ==
    {k \in KeysOf(df) :
        \E i, j \in 1..Len(df) :
            df[i].key = k /\ df[j].key = k /\ df[i].unit # df[j].unit}
LogEntries == Range(conflict_log)

\* C5 as stated: in every conflict group holding a row with a non-zero value
\* the chosen row has a non-zero value; a zero row is chosen only when every
\* row of the group is zero.
C5_NonZeroPreferred ==
    \A e \in LogEntries :
        (\E i \in 1..Len(e.group) : e.group[i].value # 0)
            => e.group[e.chosen].value # 0

\* C6: within the candidate pool the chosen row is the first pool row with
\* unit "number" if there is one, else the first with unit "kilograms" if
\* there is one, else the first row of the pool.
C6_UnitPriorityInPool ==
    \A e \in LogEntries :
        LET WithUnit(u) == {i \in e.pool : e.group[i].unit = u}
            IsFirstOf(P) == e.chosen \in P /\ \A i \in P : e.chosen <= i
        IN /\ WithUnit("number") # {} => IsFirstOf(WithUnit("number"))
           /\ (WithUnit("number") = {} /\ WithUnit("kilograms") # {})
                => IsFirstOf(WithUnit("kilograms"))
           /\ (WithUnit("number") = {} /\ WithUnit("kilograms") = {})
                => IsFirstOf(e.pool)

\* C6 witness: rows [("number", 500), ("kilograms", 0)] of one key resolved
\* to the "number" row with value 500.
C6_Witness ==
    /\ q_pc = "processed"
    /\ \E e \in LogEntries :
        /\ Len(e.group) = 2
        /\ e.group[1].unit = "number" /\ e.group[1].value = 500
        /\ e.group[2].unit = "kilograms" /\ e.group[2].value = 0
        /\ e.chosen = 1
    /\ \E i \in 1..Len(df_final_monthly) :
        df_final_monthly[i].unit = "number" /\ df_final_monthly[i].value = 500

\* C7: the table returned for a quantity file has exactly one row for every
\* key whose input rows disagree on the unit, and that row is one of the
\* input rows of the key (its unit and value come from the same input row).
C7_OneRowPerConflictKey ==
    q_pc # "read" =>
        \A k \in ClaimConflictKeys :
            /\ Cardinality(PositionsOf(df_final_monthly, k)) = 1
            /\ \A p \in PositionsOf(df_final_monthly, k) :
                \E i \in PositionsOf(df, k) :
                    /\ df_final_monthly[p].unit = df[i].unit
                    /\ df_final_monthly[p].value = ClaimValue(df[i].value)

\* C7 witness: a file with a conflicting key of three rows and another key
\* has been processed.
C7_Witness ==
    /\ q_pc = "processed"
    /\ \E k \in ClaimConflictKeys : Cardinality(PositionsOf(df, k)) >= 2
    /\ Cardinality(KeysOf(df)) = 2
    /\ Len(df_final_monthly) = 2

\* C9: applying the detection and resolution step to its own output returns
\* that table unchanged.
C9_ResolutionIdempotent ==
    q_pc = "rerun" => df_rerun = df_final_monthly

\* C9 witness: the step was rerun on an output in which a conflict had been
\* resolved and which holds the row of another key as well.
C9_Witness ==
    /\ q_pc = "rerun"
    /\ conflict_log # <<>>
    /\ Len(df_final_monthly) = 2

(***************************************************************************)
(* Claims about the main block's control flow (checked under Spec)         *)
(***************************************************************************)
VariableIndex(v) == CHOOSE i \in 1..Len(VARIABLE_FOLDERS) : VARIABLE_FOLDERS[i] = v

\* C4: when month validation fails for a batch the run stops there: the
\* failed batch is the last one visited, the run stays at that batch, no
\* later variable is consolidated and no output artifact is ever written,
\* also when earlier variables had been consolidated.
C4_ValidationFailureStopsRun ==
    \A i \in 1..Len(batch_log) :
        batch_log[i].outcome = "validation failed" =>
            /\ i = Len(batch_log)
            /\ r_pc = "exited"
            /\ batch_log[i].var = VARIABLE_FOLDERS[var_i]
            /\ batch_log[i].sort_order = SortOrders[order_i]
            /\ \A v \in Range(final_variable_vars) : VariableIndex(v) < var_i
            /\ artifacts = {}

\* C4 witness: validation failed in the last variable's folder after two
\* variables had been consolidated, and the run has exited.
C4_Witness ==
    /\ r_pc = "exited"
    /\ validation.status = "ValueError"
    /\ Len(final_variable_vars) = 2
    /\ var_i = 3

(***************************************************************************)
(* Claims about the tables (checked under SpecMaster and SpecConsolidate)  *)
(***************************************************************************)
ClaimUniqueKeys(t) ==
    \A i, j \in 1..Len(t.rows) : i # j => t.rows[i].key # t.rows[j].key

\* C8: after consolidation no two rows of a wide table share an entity key:
\* neither in a variable's consolidated table nor in the master table,
\* whatever the monthly files hold (also several rows of one key).
C8_EntityKeysUnique ==
    /\ \A n \in 1..Len(final_variable_dfs) : ClaimUniqueKeys(final_variable_dfs[n].table)
    /\ ClaimUniqueKeys(final_df)

\* C8 witness: a monthly file held two rows of one key, its variable was
\* consolidated and the master table was produced with rows in it.
C8_Witness ==
    /\ t_pc = "done"
    /\ final_df.rows # <<>>
    /\ Len(final_variable_dfs) > 1
    /\ \E s \in AllSlots :
        /\ Len(monthly_files[s].rows) = 2
        /\ monthly_files[s].rows[1].key = monthly_files[s].rows[2].key

ClaimBatch(label) ==
    IF \E n \in 1..Len(sort_order_dfs) : sort_order_dfs[n].sort_order = label
    THEN sort_order_dfs[CHOOSE n \in 1..Len(sort_order_dfs) :
                            sort_order_dfs[n].sort_order = label].table
    ELSE EmptyTable
ClaimConsolidated == final_variable_dfs[Len(final_variable_dfs)].table
ClaimConsolidatedDone == t_pc = "next variable" /\ Len(final_variable_dfs) > 0
\* the cells a batch holds for key k in column c, in row order, missing ones left out
ClaimPresentCells(t, k, c) ==
    LET rows == RowsOfKey(t, k)
        present == {i \in 1..Len(rows) : CellOf(rows[i], c) # NaN}
    IN AtPositions([i \in 1..Len(rows) |-> CellOf(rows[i], c)], present)
ClaimBothKeys ==
    KeysOf(ClaimBatch("ascending").rows) \cap KeysOf(ClaimBatch("descending").rows)

\* C10 as stated: for a key of both batches the consolidated row is a row of
\* the ascending batch, cell by cell, also where the ascending cell is missing.
C10_AscendingRowWins ==
    ClaimConsolidatedDone =>
        \A k \in ClaimBothKeys :
            \A p \in PositionsOf(ClaimConsolidated.rows, k) :
                \E i \in PositionsOf(ClaimBatch("ascending").rows, k) :
                    \A c \in Range(ClaimConsolidated.cols) :
                        ClaimConsolidated.rows[p].cells[c]
                            = CellOf(ClaimBatch("ascending").rows[i], c)

\* C10 amended: for a key of both batches every cell of the consolidated row
\* is the first non-missing cell the ascending batch holds for the key in
\* that column; only where the ascending batch holds none is it the first
\* non-missing cell of the descending batch (missing if that has none too).
C10_AscendingCellWins ==
    ClaimConsolidatedDone =>
        \A k \in ClaimBothKeys :
            /\ Cardinality(PositionsOf(ClaimConsolidated.rows, k)) = 1
            /\ \A p \in PositionsOf(ClaimConsolidated.rows, k) :
                \A c \in Range(ClaimConsolidated.cols) :
                    LET asc == ClaimPresentCells(ClaimBatch("ascending"), k, c)
                        desc == ClaimPresentCells(ClaimBatch("descending"), k, c)
                        cell == ClaimConsolidated.rows[p].cells[c]
                    IN /\ asc # <<>> => cell = asc[1]
                       /\ (asc = <<>> /\ desc # <<>>) => cell = desc[1]
                       /\ (asc = <<>> /\ desc = <<>>) => cell = NaN

\* C10 witness: a key of both batches whose ascending cell of some month is
\* missing got the descending batch's value there, and the ascending value
\* where the two batches differ.
C10_Witness ==
    /\ ClaimConsolidatedDone
    /\ \E k \in ClaimBothKeys :
        \E p \in PositionsOf(ClaimConsolidated.rows, k) :
            /\ \E c \in Range(ClaimConsolidated.cols) :
                /\ ClaimPresentCells(ClaimBatch("ascending"), k, c) = <<>>
                /\ ClaimConsolidated.rows[p].cells[c] # NaN
            /\ \E c \in Range(ClaimConsolidated.cols) :
                /\ ClaimPresentCells(ClaimBatch("ascending"), k, c) # <<>>
                /\ ClaimPresentCells(ClaimBatch("descending"), k, c) # <<>>
                /\ ClaimPresentCells(ClaimBatch("ascending"), k, c)[1]
                    # ClaimPresentCells(ClaimBatch("descending"), k, c)[1]

(***************************************************************************)
(* Claims about one folder's batch (checked under SpecBatch)               *)
(***************************************************************************)
ClaimBatchMerged ==
    t_pc = "batch done" /\ validation.status = "ok" /\ sort_order_dfs # <<>>
ClaimMergedTable == sort_order_dfs[Len(sort_order_dfs)].table
\* the value columns the merged table has for month ym
ClaimValueColumns(ym) ==
    {n \in 1..Len(ClaimMergedTable.cols) :
        /\ ClaimMergedTable.cols[n][3] = ym
        /\ ClaimMergedTable.cols[n][2] \in {"", "Value"}}
ClaimYieldsTable(i) ==
    monthly_files[i].sheet = "header" /\ monthly_files[i].rows # <<>>

\* C11 as stated: whenever a batch passes validation and is merged, the
\* merged table has exactly one value column for every expected month.
C11_MergedTableCoversRange ==
    ClaimBatchMerged =>
        \A ym \in ClaimExpectedRange : Cardinality(ClaimValueColumns(ym)) = 1

\* C11 amended: whenever a batch passes validation and is merged, the merged
\* table has exactly one value column for the month of every file that gave
\* a table with data rows, and none for the month of a file that gave an
\* empty table (no header row, an exception, no data rows), expected or not.
C11_MergedTableCoversYieldingFiles ==
    ClaimBatchMerged =>
        /\ \A i \in 1..Len(file_paths) :
            Cardinality(ClaimValueColumns(file_paths[i]))
                = IF ClaimYieldsTable(i) THEN 1 ELSE 0
        /\ \A n \in 1..Len(ClaimMergedTable.cols) :
            ClaimMergedTable.cols[n][3] \in Range(file_paths)

\* C11 witness: a batch passed validation and was merged although the file
\* of an expected month gave no table; that month has no column.
C11_Witness ==
    /\ ClaimBatchMerged
    /\ \E i \in 1..Len(file_paths) :
        /\ file_paths[i] \in ClaimExpectedRange
        /\ ~ClaimYieldsTable(i)
        /\ ClaimValueColumns(file_paths[i]) = {}

(***************************************************************************)
(* Claims about the master table (checked under SpecMaster)                *)
(***************************************************************************)
ClaimMasterDone == t_pc = "done" /\ Len(final_variable_dfs) > 1
\* the consolidated table of the variable whose cleaned name is name
ClaimVariableKeys(name) ==
    UNION {KeysOf(final_variable_dfs[n].table.rows) :
            n \in {i \in 1..Len(final_variable_dfs) :
                    \E c \in Range(final_variable_dfs[i].table.cols) : c[1] = name}}

\* C12: in the master table every value cell of a variable's month column,
\* for a key the variable contributed no row for, is 0, for customs value,
\* calculated duties and quantity value columns alike, and a unit cell of
\* such a key is left missing.
C12_AbsentValueCellsAreZero ==
    ClaimMasterDone =>
        \A i \in 1..Len(final_df.rows) :
            \A c \in Range(final_df.cols) :
                final_df.rows[i].key \notin ClaimVariableKeys(c[1]) =>
                    final_df.rows[i].cells[c] = IF c[2] = "Unit" THEN NaN ELSE <<0>>

(***************************************************************************)
(* Claims about the canonical tables (checked under SpecCrosscheck)        *)
(***************************************************************************)
ClaimLoaded == c_pc \notin {"idle", "load yours", "load official"}
ClaimCanonicalCountry(raw) == IF raw = "CHINA" THEN "China" ELSE "India"
\* the canonical key of a cell of the master table, by country and column;
\* <<>> for a column that carries no year
ClaimMasterKey(country, metric) ==
    IF metric = <<"Customs", "Jan", "2024">>
    THEN <<ClaimCanonicalCountry(country), 2024, "Jan", <<"customs">>>>
    ELSE IF metric = <<"quantity", "Value", "Feb", "2024">>
    THEN <<ClaimCanonicalCountry(country), 2024, "Feb", <<"quantity", "value">>>>
    ELSE <<>>
\* the numbers of the cells of the wide table raw that map to key k, in the
\* order of the rows (the columns of a table map to different keys, so the
\* cells of one key lie in one column)
ClaimMasterCells(raw, k) ==
    LET maps(c) == {i \in 1..Len(raw.rows) :
                        ClaimMasterKey(raw.rows[i].Country, raw.cols[c]) = k}
        columns == {c \in 1..Len(raw.cols) : maps(c) # {}}
    IN IF columns = {} THEN <<>>
       ELSE LET c == CHOOSE c \in columns : TRUE
                cells == AtPositions(raw.rows, maps(c))
            IN [i \in 1..Len(cells) |->
                    IF cells[i].cells[c][1] = "num" THEN cells[i].cells[c][2] ELSE 0]
\* the numbers of the cells of the workbook that map to key k
ClaimOfficialKey(name, row) ==
    IF row.Year[1] # "num" THEN <<>>
    ELSE <<ClaimCanonicalCountry(row.Country), row.Year[2], "Jan",
           IF name = "Customs Value" THEN <<"customs">> ELSE <<"unknown">>>>
RECURSIVE ClaimOfficialCells(_, _)
ClaimOfficialCells(sheets, k) ==
    IF sheets = <<>> THEN <<>>
    ELSE LET rows == SelectSeq(Head(sheets).rows,
                        LAMBDA r : ClaimOfficialKey(Head(sheets).name, r) = k)
         IN [i \in 1..Len(rows) |->
                IF rows[i].cells[1][1] = "num" THEN rows[i].cells[1][2] ELSE 0]
            \o ClaimOfficialCells(Tail(sheets), k)
RECURSIVE ClaimExactSum(_)
ClaimExactSum(values) ==
    IF values = <<>> THEN 0 ELSE Head(values) + ClaimExactSum(Tail(values))
ClaimAbs(x) == IF x < 0 THEN 0 - x ELSE x
\* value is the float the exact sum of values is stored as: the sum itself
\* when it is a float that needs no rounding, else within one unit in the
\* last place of it
ClaimIsSumOf(value, values) ==
    LET exact == ClaimExactSum(values)
    IN IF ClaimAbs(exact) < 2^MantissaBits THEN value = exact
       ELSE ClaimAbs(value - exact) <= 2^float_exponent(exact)
ClaimKeysOf(table) == {table[i].key : i \in 1..Len(table)}
ClaimUniqueCanonicalKeys(table) ==
    \A i, j \in 1..Len(table) : table[i].key = table[j].key => i = j
ClaimAllMasterKeys(raw) ==
    {ClaimMasterKey(raw.rows[i].Country, raw.cols[c]) :
        i \in 1..Len(raw.rows), c \in 1..Len(raw.cols)} \ {<<>>}
ClaimAllOfficialKeys(sheets) ==
    UNION {{ClaimOfficialKey(sheets[n].name, sheets[n].rows[i]) :
                i \in 1..Len(sheets[n].rows)} : n \in 1..Len(sheets)} \ {<<>>}

\* C13: each canonical table has one row for every key some input cell maps
\* to and no other row, and the row's Value is the (float) sum of all the
\* cells that map to the key, a cell that is no number counting 0.
C13_CanonicalKeysUniqueAndSummed ==
    ClaimLoaded =>
        /\ ClaimUniqueCanonicalKeys(your_df)
        /\ ClaimKeysOf(your_df) = ClaimAllMasterKeys(df_raw)
        /\ \A i \in 1..Len(your_df) :
            ClaimIsSumOf(your_df[i].Value, ClaimMasterCells(df_raw, your_df[i].key))
        /\ ClaimUniqueCanonicalKeys(official_df)
        /\ ClaimKeysOf(official_df) = ClaimAllOfficialKeys(data_sheets)
        /\ \A i \in 1..Len(official_df) :
            ClaimIsSumOf(official_df[i].Value,
                         ClaimOfficialCells(data_sheets, official_df[i].key))

\* C13 witness: both tables are loaded; a key of the candidate table sums
\* two cells of rows whose country is spelled differently, and a key of the
\* official table sums two cells.
C13_Witness ==
    /\ ClaimLoaded
    /\ \E i \in 1..Len(your_df) :
        /\ ClaimMasterCells(df_raw, your_df[i].key) = <<1, 1>>
        /\ your_df[i].Value = 2
        /\ \E a, b \in 1..Len(df_raw.rows) :
                /\ df_raw.rows[a].Country = "india"
                /\ df_raw.rows[b].Country = " India "
    /\ \E i \in 1..Len(official_df) :
        /\ ClaimOfficialCells(data_sheets, official_df[i].key) = <<1, 1>>
        /\ official_df[i].Value = 2

ClaimPermutations(n) == {f \in [1..n -> 1..n] : \A a, b \in 1..n : f[a] = f[b] => a = b}
ClaimPermuted(raw, f) ==
    [cols |-> raw.cols, rows |-> [i \in 1..Len(raw.rows) |-> raw.rows[f[i]]]]

\* C14 as stated: permuting the rows of the wide table before melting and
\* aggregation yields the same canonical table.
C14_OrderIndependent ==
    ClaimLoaded =>
        \A f \in ClaimPermutations(Len(df_raw.rows)) :
            load_your_data(ClaimPermuted(df_raw, f)) = your_df

\* C14 amended: permuting the rows yields the same keys in the same order,
\* and for every key the float sum of the same cells taken in the new row
\* order: the same Value whenever the cells sum to a float without
\* rounding, and a Value within the rounding of that sum otherwise.
C14_OrderIndependentUpToRounding ==
    ClaimLoaded =>
        \A f \in ClaimPermutations(Len(df_raw.rows)) :
            LET permuted == load_your_data(ClaimPermuted(df_raw, f))
            IN /\ Len(permuted) = Len(your_df)
               /\ \A i \in 1..Len(your_df) :
                    /\ permuted[i].key = your_df[i].key
                    /\ ClaimIsSumOf(permuted[i].Value,
                                    ClaimMasterCells(df_raw, your_df[i].key))
                    /\ ClaimExactSum(ClaimMasterCells(df_raw, your_df[i].key))
                            < 2^MantissaBits
                        => permuted[i].Value = your_df[i].Value

\* C14 witness: a key sums three cells, and some order of the rows gives it
\* another Value than the order of the file does.
C14_Witness ==
    /\ ClaimLoaded
    /\ \E i \in 1..Len(your_df) :
        /\ Len(ClaimMasterCells(df_raw, your_df[i].key)) = 3
        /\ \E f \in ClaimPermutations(Len(df_raw.rows)) :
            load_your_data(ClaimPermuted(df_raw, f))[i].Value # your_df[i].Value

(***************************************************************************)
(* Claims about the comparison (checked under SpecCrosscheck)              *)
(***************************************************************************)
ClaimCompared == c_pc \in {"report", "matched", "reported", "report not saved"}
ClaimValueIn(table, k) ==
    IF k \in ClaimKeysOf(table)
    THEN table[CHOOSE i \in 1..Len(table) : table[i].key = k].Value
    ELSE 0

\* C15: the comparison has exactly one row for every key of either canonical
\* table and no other row; in each row a value absent on one side is 0,
\* Difference is the (float) difference Your_Value - Official_Value and
\* Abs_Difference its absolute value.
C15_OneRowPerKeyWithDifferences ==
    ClaimCompared =>
        /\ ClaimUniqueCanonicalKeys(comparison_df)
        /\ ClaimKeysOf(comparison_df) = ClaimKeysOf(your_df) \cup ClaimKeysOf(official_df)
        /\ \A i \in 1..Len(comparison_df) :
            LET row == comparison_df[i]
            IN /\ row.Your_Value = ClaimValueIn(your_df, row.key)
               /\ row.Official_Value = ClaimValueIn(official_df, row.key)
               /\ ClaimIsSumOf(row.Difference, <<row.Your_Value, 0 - row.Official_Value>>)
               /\ row.Abs_Difference = ClaimAbs(row.Difference)

\* C15 witness: the comparison holds a key of the candidate table alone, a
\* key of the official table alone and a key of both with a negative
\* Difference.
C15_Witness ==
    /\ ClaimCompared
    /\ \E i, j, n \in 1..Len(comparison_df) :
        /\ comparison_df[i].key \notin ClaimKeysOf(official_df)
        /\ comparison_df[i].Your_Value # 0
        /\ comparison_df[j].key \notin ClaimKeysOf(your_df)
        /\ comparison_df[n].key \in ClaimKeysOf(your_df) \cap ClaimKeysOf(official_df)
        /\ comparison_df[n].Difference < 0

\* C16: the tag of a comparison row depends only on which tables hold the
\* key: 'both' iff both do, whatever the values, 'left_only' iff only the
\* official table does, 'right_only' iff only the candidate does; an
\* official-only row has Your_Value 0, Difference -Official_Value and
\* Abs_Difference Official_Value.
C16_TagFromMembership ==
    ClaimCompared =>
        \A i \in 1..Len(comparison_df) :
            LET row == comparison_df[i]
                yours == row.key \in ClaimKeysOf(your_df)
                official == row.key \in ClaimKeysOf(official_df)
            IN /\ row._merge = "both" <=> (yours /\ official)
               /\ row._merge = "left_only" <=> (official /\ ~yours)
               /\ row._merge = "right_only" <=> (yours /\ ~official)
               /\ row._merge = "left_only" =>
                    /\ row.Your_Value = 0
                    /\ row.Difference = 0 - row.Official_Value
                    /\ row.Abs_Difference = row.Official_Value

\* C16 witness: a key of both tables whose official value is 0 is tagged
\* 'both', and an official-only row with a value that is not 0 has the
\* negated value as its Difference.
C16_Witness ==
    /\ ClaimCompared
    /\ \E i, j \in 1..Len(comparison_df) :
        /\ comparison_df[i]._merge = "both"
        /\ comparison_df[i].Official_Value = 0
        /\ comparison_df[j]._merge = "left_only"
        /\ comparison_df[j].Official_Value > 0
        /\ comparison_df[j].Difference = 0 - comparison_df[j].Official_Value

ClaimSwappedTag(tag) ==
    CASE tag = "left_only" -> "right_only"
      [] tag = "right_only" -> "left_only"
      [] OTHER -> tag

\* C17: comparing with reference and candidate exchanged gives, key by key,
\* the negated Difference, the same Abs_Difference and the tags left_only
\* and right_only exchanged.
C17_ComparatorSymmetry ==
    ClaimCompared =>
        LET swapped == compare_datasets(official_df, your_df)
        IN /\ Len(swapped) = Len(comparison_df)
           /\ \A i \in 1..Len(comparison_df) :
                /\ swapped[i].key = comparison_df[i].key
                /\ swapped[i].Difference = 0 - comparison_df[i].Difference
                /\ swapped[i].Abs_Difference = comparison_df[i].Abs_Difference
                /\ swapped[i]._merge = ClaimSwappedTag(comparison_df[i]._merge)

\* C17 witness: the comparison holds rows of all three tags and a Difference
\* that is not 0.
C17_Witness ==
    /\ ClaimCompared
    /\ {comparison_df[i]._merge : i \in 1..Len(comparison_df)}
            = {"both", "left_only", "right_only"}
    /\ \E i \in 1..Len(comparison_df) :
        comparison_df[i]._merge = "both" /\ comparison_df[i].Difference # 0

ClaimReported == c_pc \in {"matched", "reported", "report not saved"}
ClaimCount(rows, row) == Cardinality({i \in 1..Len(rows) : rows[i] = row})

\* C18: the discrepancies are exactly the comparison rows whose
\* Abs_Difference is strictly greater than TOLERANCE, whatever their tag.
C18_DiscrepanciesAboveTolerance ==
    ClaimReported =>
        /\ \A i \in 1..Len(comparison_df) :
            ClaimCount(inconsistencies, comparison_df[i])
                = IF comparison_df[i].Abs_Difference > TOLERANCE
                  THEN ClaimCount(comparison_df, comparison_df[i]) ELSE 0
        /\ \A i \in 1..Len(inconsistencies) :
            ClaimCount(comparison_df, inconsistencies[i]) > 0

\* C18 witness: a row that differs by exactly TOLERANCE is not among the
\* discrepancies, and a row of one table alone that differs by more is.
C18_Witness ==
    /\ ClaimReported
    /\ \E i \in 1..Len(comparison_df) :
        /\ comparison_df[i].Abs_Difference = TOLERANCE
        /\ ClaimCount(inconsistencies, comparison_df[i]) = 0
    /\ \E i \in 1..Len(inconsistencies) :
        /\ inconsistencies[i]._merge # "both"
        /\ inconsistencies[i].Abs_Difference > TOLERANCE

\* C19: a comparison row whose Official_Value is 0 has a missing
\* Percent_Diff, and a row whose Official_Value is not 0 has the quotient
\* Difference / Official_Value * 100.
C19_PercentDiffUndefinedAtZero ==
    ClaimCompared =>
        \A i \in 1..Len(comparison_df) :
            LET row == comparison_df[i]
            IN IF row.Official_Value = 0 THEN row.Percent_Diff = <<>>
               ELSE /\ Len(row.Percent_Diff) = 2
                    /\ row.Percent_Diff[2] # 0
                    /\ row.Percent_Diff[1] * row.Official_Value
                            = 100 * row.Difference * row.Percent_Diff[2]

\* C19 witness: a candidate-only row and a row of both tables with official
\* value 0 have no Percent_Diff, and a row with another official value has
\* one that is not 0.
C19_Witness ==
    /\ ClaimCompared
    /\ \E i, j, n \in 1..Len(comparison_df) :
        /\ comparison_df[i]._merge = "right_only"
        /\ comparison_df[i].Percent_Diff = <<>>
        /\ comparison_df[j]._merge = "both"
        /\ comparison_df[j].Official_Value = 0
        /\ comparison_df[j].Percent_Diff = <<>>
        /\ comparison_df[n].Official_Value # 0
        /\ comparison_df[n].Percent_Diff # <<>>
        /\ comparison_df[n].Percent_Diff[1] # 0

(***************************************************************************)
(* Claims about failing files (checked under SpecFailures)                 *)
(***************************************************************************)
ClaimFails(s) == monthly_files[s].sheet # "header"
ClaimYields(s) == monthly_files[s].sheet = "header" /\ monthly_files[s].rows # <<>>
ClaimColumnMonths(t) == {c[3] : c \in Range(t.cols)}
ClaimOrderIndex(label) == CHOOSE o \in 1..Len(SortOrders) : SortOrders[o] = label
ClaimVariablesWithData ==
    {VARIABLE_FOLDERS[s[1]] : s \in {x \in AllSlots : ClaimYields(x)}}

\* C20: a file without header row or whose processing raises gives an empty
\* table; the merged table of its batch holds the month columns of exactly
\* the other files with data; and the run goes on to the end, where every
\* variable with a file that gave data has its consolidated table.
C20_FileFailureDoesNotStopRun ==
    /\ t_pc # "idle" =>
        \A s \in AllSlots :
            ClaimFails(s) =>
                process_single_file(s[1], TableMonths[s[3]], monthly_files[s]) = EmptyTable
    /\ t_pc \in {"batch", "consolidate"} =>
        \A i \in 1..Len(sort_order_dfs) :
            ClaimColumnMonths(sort_order_dfs[i].table)
                = {TableMonths[m] : m \in {n \in 1..Len(TableMonths) :
                        ClaimYields(<<t_var, ClaimOrderIndex(sort_order_dfs[i].sort_order), n>>)}}
    /\ t_pc \in {"final", "done"} =>
        {final_variable_dfs[i].var : i \in 1..Len(final_variable_dfs)}
            = ClaimVariablesWithData

\* C20 witness: the run has ended with the final merge although a file of
\* the first batch raised and the file of the second variable had no header
\* row; the other file of the first batch and the file of the last
\* variable are in the result.
C20_Witness ==
    /\ t_pc = "done"
    /\ monthly_files # <<>>
    /\ monthly_files[<<1, 1, 1>>].sheet = "unreadable"
    /\ ClaimYields(<<1, 1, 2>>)
    /\ monthly_files[<<2, 1, 1>>].sheet = "no header"
    /\ {final_variable_dfs[i].var : i \in 1..Len(final_variable_dfs)}
            = {VARIABLE_FOLDERS[1], VARIABLE_FOLDERS[3]}
    /\ \E c \in Range(final_df.cols) : c[1] = "Customs" /\ c[3] = TableMonths[2]
    /\ \E c \in Range(final_df.cols) : c[1] = "quantity"
    /\ ~\E c \in Range(final_df.cols) : c[1] = "Customs" /\ c[3] = TableMonths[1]

(***************************************************************************)
(* Claims about saving the final artifacts (checked under Spec)            *)
(***************************************************************************)
\* C21: whatever happens to the write of one output format, the run goes on
\* with the write of the next format (summary workbook, then Parquet, then
\* Excel), and ends only after the last one.
C21_EachFormatWrittenAlone ==
    [][(r_pc \in Range(SaveSteps)) => (r_pc' = AfterSave(r_pc))]_vars

(***************************************************************************)
(* Claims about the cache of load_your_data (checked under SpecCache)      *)
(***************************************************************************)
ClaimCalled == k_runs > 0
ClaimMustRebuild ==
    k_call.force_rebuild \/ k_call.cache_before.state \in {"absent", "unreadable"}

\* C22: a call without the rebuild flag that meets a readable cache returns
\* the cached table, does not read the master file and leaves the cache as
\* it is, whatever the master file holds; the master file is read and the
\* cache overwritten only when the flag is set, the cache is absent or
\* reading it fails, and a call with the flag returns the table computed
\* from the master file.
C22_CacheInvalidatedOnlyByFlag ==
    ClaimCalled =>
        /\ (~k_call.force_rebuild /\ k_call.cache_before.state = "readable") =>
                /\ k_call.returned = <<k_call.cache_before.table>>
                /\ ~k_call.read_master
                /\ k_call.cache_after = k_call.cache_before
        /\ k_call.read_master => ClaimMustRebuild
        /\ k_call.cache_after # k_call.cache_before =>
                ClaimMustRebuild /\ k_call.read_master
        /\ (k_call.force_rebuild /\ k_call.master.state = "readable") =>
                k_call.returned = <<load_your_data(k_call.master.raw)>>

\* C22 witness: a call without the flag returned the cached table although
\* the master file was readable and gives another table by then.
C22_Witness ==
    /\ ClaimCalled
    /\ ~k_call.force_rebuild
    /\ k_call.cache_before.state = "readable"
    /\ k_call.master.state = "readable"
    /\ k_call.returned = <<k_call.cache_before.table>>
    /\ k_call.returned # <<load_your_data(k_call.master.raw)>>

(***************************************************************************)
(* Claims about header detection (checked under SpecHeader)                *)
(***************************************************************************)
\* the text names the anchor column, upper and lower case and the blanks
\* around it not counting
ClaimNamesAnchor(text) ==
    text \in {"HTS Number", "  HTS Number ", "hts number", "Notes on HTS Number codes"}
ClaimHeaderRows ==
    {i \in 1..Len(h_df) : i <= HEAD_ROWS /\ ClaimNamesAnchor(h_df[i])}

\* C23: the header is the first of the scanned leading rows with a cell that
\* contains the anchor column name, upper and lower case and surrounding
\* blanks not counting; that row and the rows above it are removed, and
\* without such a row the file gives the empty table.
C23_HeaderIsFirstAnchorRow ==
    /\ h_pc = "shape" =>
        /\ ClaimHeaderRows # {}
        /\ header_row_index + 1 = Min(ClaimHeaderRows)
        /\ h_data = SubSeq(h_df, header_row_index + 2, Len(h_df))
    /\ h_pc = "no data" => ClaimHeaderRows = {}

(***************************************************************************)
(* Claims about the pool of workers (checked under SpecPool)               *)
(***************************************************************************)
ClaimTableOfFile(i) == process_single_file(1, PoolMonth(i), w_files[i])
ClaimSequentialList ==
    SelectSeq([i \in 1..Len(w_files) |-> ClaimTableOfFile(i)], LAMBDA t : ~IsEmpty(t))

\* C24: in whatever order the workers complete, the result of a file is
\* the table of that file alone, and the list handed to the merge, hence the
\* merged table, is the one a sequential pass over the files gives.
C24_PoolOrderIndependent ==
    /\ w_pc # "idle" =>
        \A i \in 1..Len(w_files) :
            w_results[i] # <<>> => w_results[i] = <<ClaimTableOfFile(i)>>
    /\ w_pc = "merge" =>
        /\ w_list = ClaimSequentialList
        /\ w_list # <<>> => reduce_merge(w_list) = reduce_merge(ClaimSequentialList)

\* C24 witness: the last file's worker completed first and the first file's
\* last, a file in between failed, and the list holds the tables of the
\* first and the last file in list order.
C24_Witness ==
    /\ w_pc = "merge"
    /\ Head(w_order) = Len(w_files)
    /\ w_order[Len(w_order)] = 1
    /\ \E i \in 1..Len(w_files) : w_files[i].sheet # "header"
    /\ Len(w_list) >= 2
    /\ w_list[1] = ClaimTableOfFile(1)
    /\ w_list[Len(w_list)] = ClaimTableOfFile(Len(w_files))

(***************************************************************************)
(* Claims about the report (checked under SpecCrosscheck)                  *)
(***************************************************************************)
\* C25: generate_report ends with the success message, without opening the
\* workbook, exactly when no comparison row has Abs_Difference > TOLERANCE;
\* otherwise it goes on to the discrepancy report, whose rows are in
\* non-increasing order of Abs_Difference.
C25_SuccessIffNoDiscrepancy ==
    ClaimReported =>
        /\ c_pc = "matched" <=>
                \A i \in 1..Len(comparison_df) :
                    ~(comparison_df[i].Abs_Difference > TOLERANCE)
        /\ c_pc # "matched" =>
            /\ inconsistencies # <<>>
            /\ \A i, j \in 1..Len(inconsistencies) :
                    i < j => inconsistencies[i].Abs_Difference
                                >= inconsistencies[j].Abs_Difference

\* C25 witness: the report holds two discrepancies that stand in the other
\* order in the comparison.
C25_Witness ==
    /\ c_pc = "reported"
    /\ Len(inconsistencies) >= 2
    /\ inconsistencies[1].Abs_Difference > inconsistencies[2].Abs_Difference
    /\ \E i, j \in 1..Len(comparison_df) :
        /\ i < j
        /\ comparison_df[i] = inconsistencies[2]
        /\ comparison_df[j] = inconsistencies[1]

(***************************************************************************)
(* Claims about the parsing of column names (checked under SpecCrosscheck) *)
(***************************************************************************)
ClaimLowerCased(token) ==
    CASE token = "Customs" -> "customs"
      [] token = "Value" -> "value"
      [] OTHER -> token
\* <<Year, Month, Variable>> of a column name given as its tokens, <<>> when
\* the last token is no year or there is no token before it
ClaimParsedName(tokens) ==
    LET n == Len(tokens)
    IN IF n < 2 \/ tokens[n] # "2024" THEN <<>>
       ELSE <<2024, tokens[n - 1], [i \in 1..(n - 2) |-> ClaimLowerCased(tokens[i])]>>
ClaimParsedNames(raw) ==
    {ClaimParsedName(raw.cols[c]) : c \in 1..Len(raw.cols)} \ {<<>>}

\* C26: in the canonical table of the master file the Year of a key is the
\* last token of its column name, the Month the token before it and the
\* Variable the tokens before these in lower case ('Customs_Jan_2024' gives
\* customs, Jan, 2024 and 'quantity_Value_Feb_2024' gives quantity_value,
\* Feb, 2024); the cells of a column whose name gives no Year are dropped.
C26_ColumnNameParsing ==
    ClaimLoaded =>
        /\ {<<your_df[i].key[2], your_df[i].key[3], your_df[i].key[4]>> :
                i \in 1..Len(your_df)}
            = IF df_raw.rows = <<>> THEN {} ELSE ClaimParsedNames(df_raw)
        /\ ClaimParsedName(<<"Customs", "Jan", "2024">>) = <<2024, "Jan", <<"customs">>>>
        /\ ClaimParsedName(<<"quantity", "Value", "Feb", "2024">>)
                = <<2024, "Feb", <<"quantity", "value">>>>

\* C26 witness: a master table with the columns Customs_Jan_2024,
\* quantity_Value_Feb_2024 and Description and with rows gave keys of the
\* first two columns alone.
C26_Witness ==
    /\ ClaimLoaded
    /\ Len(df_raw.cols) = 3
    /\ df_raw.rows # <<>>
    /\ {<<your_df[i].key[3], your_df[i].key[4]>> : i \in 1..Len(your_df)}
            = {<<"Jan", <<"customs">>>>, <<"Feb", <<"quantity", "value">>>>}

(***************************************************************************)
(* Claims about cells that are no numbers (checked under SpecCrosscheck)   *)
(***************************************************************************)
ClaimNumbersOf(cells) == SelectSeq(cells, LAMBDA x : x # 0)

\* C27: a cell that is text or missing adds 0 to the sum of its key, and
\* its row still counts: every key some row maps to is in the canonical
\* table, with Value 0 when none of its cells is a number.
C27_UnparseableCellsCountZero ==
    ClaimLoaded =>
        /\ ClaimAllMasterKeys(df_raw) \subseteq ClaimKeysOf(your_df)
        /\ ClaimAllOfficialKeys(data_sheets) \subseteq ClaimKeysOf(official_df)
        /\ \A i \in 1..Len(your_df) :
            LET numbers == ClaimNumbersOf(ClaimMasterCells(df_raw, your_df[i].key))
            IN /\ ClaimIsSumOf(your_df[i].Value, numbers)
               /\ numbers = <<>> => your_df[i].Value = 0
        /\ \A i \in 1..Len(official_df) :
            LET numbers == ClaimNumbersOf(ClaimOfficialCells(data_sheets, official_df[i].key))
            IN /\ ClaimIsSumOf(official_df[i].Value, numbers)
               /\ numbers = <<>> => official_df[i].Value = 0

\* C27 witness: a key of the master table has a text cell and a missing
\* cell and no number, a key of the workbook only a missing cell; both are
\* in their canonical tables with Value 0.
C27_Witness ==
    /\ ClaimLoaded
    /\ \E i \in 1..Len(your_df) :
        /\ your_df[i].Value = 0
        /\ \E a, b \in 1..Len(df_raw.rows) :
            /\ df_raw.rows[a].cells[1] = <<"text", 0>>
            /\ df_raw.rows[b].cells[1] = <<"nan", 0>>
            /\ ClaimMasterKey(df_raw.rows[a].Country, df_raw.cols[1]) = your_df[i].key
            /\ ClaimMasterKey(df_raw.rows[b].Country, df_raw.cols[1]) = your_df[i].key
    /\ \E i \in 1..Len(official_df) :
        /\ official_df[i].Value = 0
        /\ ClaimOfficialCells(data_sheets, official_df[i].key) = <<0>>

(***************************************************************************)
(* Claims about the final step (checked under Spec)                        *)
(***************************************************************************)
\* C28: the save steps are entered and an artifact exists only when at
\* least two variables have a consolidated table; a run with one such
\* variable or none ends without any artifact.
C28_ArtifactsNeedTwoVariables ==
    /\ (r_pc \in Range(SaveSteps) \/ artifacts # {}) => Len(final_variable_vars) >= 2
    /\ (r_pc = "done" /\ Len(final_variable_vars) < 2) => artifacts = {}

\* C28 witness: the run is over, exactly one variable had data and nothing
\* was written.
C28_Witness ==
    /\ r_pc = "done"
    /\ Len(final_variable_vars) = 1
    /\ artifacts = {}

(***************************************************************************)
(* Claims about make_api_request (checked under SpecRequest)               *)
(***************************************************************************)
ClaimRetryable(outcome) == outcome \in {"429", "Timeout", "ConnectionError"}
ClaimBackoff == <<5, 10, 20>>

\* C29: make_api_request makes at most 4 HTTP attempts; it returns the
\* response at the first attempt with status 200, returns None at once at a
\* status other than 200 and 429, goes on only after a 429 or a request
\* exception, sleeping 5, 10 and 20 seconds before the attempts 2, 3 and 4,
\* and returns None without sleeping after the fourth failed attempt.
C29_AtMostFourAttemptsWithBackoff ==
    a_return # "idle" =>
        LET n == Len(a_outcomes)
        IN /\ n <= 4
           /\ \A i \in 1..(n - 1) : ClaimRetryable(a_outcomes[i])
           /\ a_return = "pending" =>
                /\ n < 4
                /\ \A i \in 1..n : ClaimRetryable(a_outcomes[i])
                /\ a_sleeps = SubSeq(ClaimBackoff, 1, n)
           /\ a_return = "response" => n >= 1 /\ a_outcomes[n] = "200"
           /\ a_return = "None" =>
                /\ n >= 1
                /\ a_outcomes[n] # "200"
                /\ ClaimRetryable(a_outcomes[n]) => n = 4
           /\ a_return # "pending" => a_sleeps = SubSeq(ClaimBackoff, 1, n - 1)
           /\ (n >= 1 /\ ~ClaimRetryable(a_outcomes[n])) => a_return # "pending"

\* C29 witness: four attempts met a 429 or an exception, the function slept
\* 5, 10 and 20 seconds between them and returned None.
C29_Witness ==
    /\ a_return = "None"
    /\ Len(a_outcomes) = 4
    /\ a_outcomes[1] = "429"
    /\ a_outcomes[4] = "Timeout"
    /\ a_sleeps = <<5, 10, 20>>

(***************************************************************************)
(* Claims about the checkpoint of the download (checked under SpecResume)  *)
(***************************************************************************)
ClaimDataLines(file, country) ==
    Cardinality({i \in 1..Len(file) : file[i] = CsvLine("rows", country)})

\* C30: over interrupted and restarted runs, a country whose iteration was
\* completed, with or without data, is not queried again, and the rows of a
\* country are appended to the output file at most once.
C30_CompletedCountriesNotRepeated ==
    [][/\ \A c \in p_completed : p_queried'[c] = p_queried[c]
       /\ \A c \in Range(country_list) : ClaimDataLines(output_file', c) <= 1]_vars

====
